---- MODULE Spec2Model ----
(***************************************************************************)
(* Model of the derivative-chromosome reconstruction library.              *)
(*                                                                         *)
(* walkBreakends (the segment-graph walker) and buildSvLinks (the SV-edge  *)
(* part of buildGraph) are modelled step by step.  Chromosome names are    *)
(* the integers 1, 2 standing for "chr1", "chr2": Array.prototype.sort()   *)
(* orders these names as the integers are ordered.  A breakend id is the   *)
(* breakend's number; mateId 0 stands for `undefined`.  Segment indices    *)
(* count from 0 as in the code, so segment idx is allSegments[idx + 1].    *)
(* Only the fields of a breakend that the walker and buildSvLinks read     *)
(* are kept: id, chr, pos, orientation, mateId.                            *)
(***************************************************************************)
EXTENDS Integers, Sequences, FiniteSets, TLC

\* ---------------------------------------------------------------- bounds
\* Longest breakend list with arbitrary (also asymmetric, dangling) mates.
MaxBreakends == 2
\* Breakend positions are drawn from 1..MaxPos.
MaxPos == 2
\* Longest segment list of a chain given to classifyChain directly.
MaxSegments == 3
\* Longest list of arbitrary lines given to parseVcfLines.
MaxLines == 2

\* ------------------------------------------------------ program constants
PAD == 1000
RIGHT == 1
LEFT == -1
NoMate == 0

Chrs == {1, 2}
Orientations == {RIGHT, LEFT}

\* ------------------------------------------------------------ input sets
Attrs == [chr : Chrs, pos : 1..MaxPos, orientation : Orientations]

MkBreakend(i, a, m) ==
    [id |-> i, chr |-> a.chr, pos |-> a.pos, orientation |-> a.orientation,
     mateId |-> m]

\* A list of n breakends with unique ids and arbitrary mateIds: undefined (0),
\* the id of another breakend of the list (which need not name it back), or
\* an id that is not in the list.  No breakend is its own mate.
ArbitraryInput(bs) ==
    \E n \in 0..MaxBreakends :
        \E f \in [1..n -> Attrs],
           g \in { h \in [1..n -> 0..(MaxBreakends + 1)] :
                     \A i \in 1..n : h[i] # i } :
            bs = [i \in 1..n |-> MkBreakend(i, f[i], g[i])]

\* A list of four breakends that form two reciprocal mate pairs, in every
\* order of the list (the three perfect matchings of the four list places).
Matchings == { <<2, 1, 4, 3>>, <<3, 4, 1, 2>>, <<4, 3, 2, 1>> }

PairedInput(bs) ==
    \E f \in [1..4 -> Attrs], m \in Matchings :
        bs = [i \in 1..4 |-> MkBreakend(i, f[i], m[i])]

\* A list of three breakends: a reciprocal mate pair and a stray breakend
\* whose mateId is undefined or names an id that is not in the list, in
\* every order of the list.
StrayMatchings == { <<0, 3, 2>>, <<3, 0, 1>>, <<2, 1, 0>> }

StrayInput(bs) ==
    \E f \in [1..3 -> Attrs], m \in StrayMatchings, dangling \in BOOLEAN :
        bs = [i \in 1..3 |->
                MkBreakend(i, f[i],
                    IF m[i] # 0 THEN m[i]
                    ELSE IF dangling THEN 4 ELSE NoMate)]

\* A list of three breakends whose mateIds are not reciprocal: some breakend
\* names a second one and the second names the third, in every order of the
\* list; the remaining mateId is undefined or names any other breakend.
ChainMatings ==
    { m \in [1..3 -> 0..3] :
        /\ \A i \in 1..3 : m[i] # i
        /\ \E i, j \in 1..3 : i # j /\ m[i] = j /\ m[j] \notin {0, i} }

ChainedInput(bs) ==
    \E f \in [1..3 -> Attrs], m \in ChainMatings :
        bs = [i \in 1..3 |-> MkBreakend(i, f[i], m[i])]

\* ----------------------------------------------------------------- ports
Port(side, index) == [side |-> side, index |-> index]
NoPort == [side |-> "none", index |-> -1]
NoBreakend == [id |-> 0, chr |-> 0, pos |-> 0, orientation |-> 0, mateId |-> 0]

\* Map.set
MapSet(m, k, v) == (k :> v) @@ m
\* Map.has
MapHas(m, k) == k \in DOMAIN m
\* Map.get, NoPort for undefined
MapGet(m, k) == IF k \in DOMAIN m THEN m[k] ELSE NoPort

\* ------------------------------------------------- walkBreakends, step 1-2
RECURSIVE SortAsc(_)
SortAsc(S) ==
    IF S = {} THEN << >>
    ELSE LET m == CHOOSE x \in S : \A y \in S : x <= y
         IN  <<m>> \o SortAsc(S \ {m})

\* ChrNames without the sort: the chromosomes in order of first appearance
RECURSIVE FirstAppearance(_, _, _)
FirstAppearance(bs, k, acc) ==
    IF k > Len(bs) THEN acc
    ELSE FirstAppearance(bs, k + 1,
            IF \E j \in DOMAIN acc : acc[j] = bs[k].chr THEN acc
            ELSE Append(acc, bs[k].chr))

ChrNamesUnsorted(bs) == FirstAppearance(bs, 1, << >>)

\* chrPositions.keys(), sorted
ChrNames(bs) == SortAsc({ bs[i].chr : i \in DOMAIN bs })

\* chrPositions.get(chr), sorted ascending
Positions(bs, chr) ==
    SortAsc({ bs[i].pos : i \in { j \in DOMAIN bs : bs[j].chr = chr } })

Boundaries(positions) ==
    <<0>> \o positions \o << positions[Len(positions)] + PAD >>

\* the segments of one chromosome, numbered from `first`
SegmentsOfChr(chr, bounds, first) ==
    [ i \in 1..(Len(bounds) - 1) |->
        [chr |-> chr, start |-> bounds[i], end |-> bounds[i + 1],
         index |-> first + i - 1] ]

RECURSIVE SegmentsFrom(_, _, _, _)
SegmentsFrom(names, k, bs, acc) ==
    IF k > Len(names) THEN acc
    ELSE SegmentsFrom(names, k + 1, bs,
            acc \o SegmentsOfChr(names[k], Boundaries(Positions(bs, names[k])),
                                 Len(acc)))

\* allSegments
BuildSegments(bs) == SegmentsFrom(ChrNames(bs), 1, bs, << >>)

\* chrSegments.get(chr); the empty list when the chromosome has no entry
ChrSegments(segs, chr) == SelectSeq(segs, LAMBDA s : s.chr = chr)

\* ---------------------------------------------------- walkBreakends, step 3
\* getBreakendPort with the two ends of a segment confused
getBreakendPortEndsSwapped(b, segs) ==
    LET cs == ChrSegments(segs, b.chr)
        hit == IF b.orientation = RIGHT
               THEN SelectSeq(cs, LAMBDA s : s.start = b.pos)
               ELSE SelectSeq(cs, LAMBDA s : s.end = b.pos)
    IN  IF hit = << >> THEN NoPort
        ELSE Port(IF b.orientation = RIGHT THEN "R" ELSE "L", hit[1].index)

getBreakendPort(b, segs) ==
    LET cs == ChrSegments(segs, b.chr)
        hit == IF b.orientation = RIGHT
               THEN SelectSeq(cs, LAMBDA s : s.end = b.pos)
               ELSE SelectSeq(cs, LAMBDA s : s.start = b.pos)
    IN  IF hit = << >> THEN NoPort
        ELSE Port(IF b.orientation = RIGHT THEN "R" ELSE "L", hit[1].index)

\* breakendAt.get(`${chr}:${pos}`) ?? [], in input order
BreakendAt(bs, chr, pos) ==
    SelectSeq(bs, LAMBDA b : b.chr = chr /\ b.pos = pos)

\* byId.get(id): the last breakend of the list with that id
ById(bs, id) ==
    LET is == { i \in DOMAIN bs : bs[i].id = id }
    IN  IF is = {} THEN NoBreakend
        ELSE bs[CHOOSE i \in is : \A j \in is : j <= i]

\* b.mateId ? byId.get(b.mateId) : undefined
MateOf(bs, b) == IF b.mateId = NoMate THEN NoBreakend ELSE ById(bs, b.mateId)

\* the two set() calls made for a severed port
Connect(ec, port, matePort) == MapSet(MapSet(ec, port, matePort), matePort, port)

\* WireBreakend that falls back to the reference adjacency when the mate
\* does not resolve
WireBreakendFallback(ec, b, leftPortId, rightPortId, bs, segs) ==
    LET mate == MateOf(bs, b)
        matePort == IF mate = NoBreakend THEN NoPort
                    ELSE getBreakendPort(mate, segs)
        own == IF b.orientation = RIGHT THEN leftPortId ELSE rightPortId
    IN  IF matePort # NoPort
        THEN Connect(ec, own, matePort)
        ELSE Connect(ec, leftPortId, rightPortId)

\* one iteration of `for (const b of bAtPos)`
WireBreakend(ec, b, leftPortId, rightPortId, bs, segs) ==
    LET mate == MateOf(bs, b)
        matePort == IF mate = NoBreakend THEN NoPort
                    ELSE getBreakendPort(mate, segs)
        own == IF b.orientation = RIGHT THEN leftPortId ELSE rightPortId
    IN  IF b.orientation \in {RIGHT, LEFT} /\ matePort # NoPort
        THEN Connect(ec, own, matePort)
        ELSE ec

RECURSIVE WireBreakendsAt(_, _, _, _, _, _, _)
WireBreakendsAt(ec, bAtPos, k, leftPortId, rightPortId, bs, segs) ==
    IF k > Len(bAtPos) THEN ec
    ELSE WireBreakendsAt(
            WireBreakend(ec, bAtPos[k], leftPortId, rightPortId, bs, segs),
            bAtPos, k + 1, leftPortId, rightPortId, bs, segs)

\* WireBoundary that keeps the reference adjacency unless both sides are
\* severed
WireBoundaryUnlessBoth(ec, leftSeg, rightSeg, bs, segs) ==
    LET bAtPos == BreakendAt(bs, leftSeg.chr, leftSeg.end)
        leftPortId == Port("R", leftSeg.index)
        rightPortId == Port("L", rightSeg.index)
        leftSevered == \E k \in DOMAIN bAtPos : bAtPos[k].orientation = RIGHT
        rightSevered == \E k \in DOMAIN bAtPos : bAtPos[k].orientation = LEFT
        wired == WireBreakendsAt(ec, bAtPos, 1, leftPortId, rightPortId, bs, segs)
    IN  IF ~(leftSevered /\ rightSevered)
        THEN Connect(wired, leftPortId, rightPortId)
        ELSE wired

\* the body of `for (let i = 0; i < segs.length - 1; i++)`
WireBoundary(ec, leftSeg, rightSeg, bs, segs) ==
    LET bAtPos == BreakendAt(bs, leftSeg.chr, leftSeg.end)
        leftPortId == Port("R", leftSeg.index)
        rightPortId == Port("L", rightSeg.index)
        leftSevered == \E k \in DOMAIN bAtPos : bAtPos[k].orientation = RIGHT
        rightSevered == \E k \in DOMAIN bAtPos : bAtPos[k].orientation = LEFT
        wired == WireBreakendsAt(ec, bAtPos, 1, leftPortId, rightPortId, bs, segs)
    IN  IF ~leftSevered /\ ~rightSevered
        THEN Connect(wired, leftPortId, rightPortId)
        ELSE wired

\* Both loops of step 3: the boundaries are the pairs of consecutive segments
\* of one chromosome, visited in segment order (chromosomes in name order).
RECURSIVE WireFrom(_, _, _, _)
WireFrom(ec, i, bs, segs) ==
    IF i >= Len(segs) THEN ec
    ELSE WireFrom(
            IF segs[i].chr = segs[i + 1].chr
            THEN WireBoundary(ec, segs[i], segs[i + 1], bs, segs)
            ELSE ec,
            i + 1, bs, segs)

\* externalConnections
BuildConnections(bs, segs) == WireFrom(<< >>, 1, bs, segs)

\* ---------------------------------------------------- walkBreakends, step 4
RECURSIVE CollectFreePorts(_, _, _)
CollectFreePorts(segs, i, ec) ==
    IF i > Len(segs) THEN << >>
    ELSE (IF MapHas(ec, Port("L", segs[i].index))
          THEN << >> ELSE << Port("L", segs[i].index) >>)
         \o (IF MapHas(ec, Port("R", segs[i].index))
             THEN << >> ELSE << Port("R", segs[i].index) >>)
         \o CollectFreePorts(segs, i + 1, ec)

\* PortCmp with the sides swapped: right ports first
PortCmpRightFirst(a, b) ==
    IF a.side = "R" /\ b.side # "R" THEN -1
    ELSE IF a.side # "R" /\ b.side = "R" THEN 1
    ELSE a.index - b.index

\* the comparator of freePorts.sort: negative when a goes before b
PortCmp(a, b) ==
    IF a.side = "L" /\ b.side # "L" THEN -1
    ELSE IF a.side # "L" /\ b.side = "L" THEN 1
    ELSE a.index - b.index

\* Array.prototype.sort is stable: insert x after the last element not after it
RECURSIVE InsertPort(_, _)
InsertPort(sorted, x) ==
    IF sorted = << >> THEN << x >>
    ELSE IF PortCmp(sorted[Len(sorted)], x) <= 0 THEN Append(sorted, x)
    ELSE Append(InsertPort(SubSeq(sorted, 1, Len(sorted) - 1), x),
                sorted[Len(sorted)])

RECURSIVE SortPorts(_, _, _)
SortPorts(ports, k, acc) ==
    IF k > Len(ports) THEN acc
    ELSE SortPorts(ports, k + 1, InsertPort(acc, ports[k]))

\* sortedFreePorts
SortedFreePorts(segs, ec) == SortPorts(CollectFreePorts(segs, 1, ec), 1, << >>)

\* WalkSegmentOf that ignores the port of entry
WalkSegmentAlwaysForward(seg, isLeft) ==
    [chr |-> seg.chr, start |-> seg.start, end |-> seg.end,
     orientation |-> "forward", segmentIndex |-> seg.index]

WalkSegmentOf(seg, isLeft) ==
    [chr |-> seg.chr, start |-> seg.start, end |-> seg.end,
     orientation |-> IF isLeft THEN "forward" ELSE "reverse",
     segmentIndex |-> seg.index]

\* the `while (true)` loop
RECURSIVE WalkLoop(_, _, _, _, _)
WalkLoop(currentPort, vis, chain, segs, ec) ==
    LET idx == currentPort.index IN
    IF idx \in vis THEN [chain |-> chain, visited |-> vis]
    ELSE LET isLeft == currentPort.side = "L"
             exitPort == Port(IF isLeft THEN "R" ELSE "L", idx)
             chain2 == Append(chain, WalkSegmentOf(segs[idx + 1], isLeft))
             vis2 == vis \cup {idx}
             nextPort == MapGet(ec, exitPort)
         IN  IF nextPort = NoPort
             THEN [chain |-> chain2, visited |-> vis2]
             ELSE WalkLoop(nextPort, vis2, chain2, segs, ec)

\* WalkFrom with a visited set of its own for every chain
WalkFromFresh(startPort, vis, segs, ec) ==
    LET r == WalkLoop(startPort, {}, << >>, segs, ec)
    IN  [chain |-> r.chain, visited |-> vis \cup r.visited]

\* one iteration of `for (const startPort of sortedFreePorts)` that is not
\* skipped: the chain walked and the visited set after it
WalkFrom(startPort, vis, segs, ec) == WalkLoop(startPort, vis, << >>, segs, ec)

\* Orphans that looks the segment up by its place in the list, not its index
OrphansByPlace(segs, vis) ==
    LET un == SelectSeq(segs, LAMBDA s : s.index + 1 \notin vis)
    IN  [ i \in 1..Len(un) |-> un[i].index ]

\* orphanIndices
Orphans(segs, vis) ==
    LET un == SelectSeq(segs, LAMBDA s : s.index \notin vis)
    IN  [ i \in 1..Len(un) |-> un[i].index ]

\* ------------------------------------------------------------ buildSvLinks
RECURSIVE SvLinksFrom(_, _, _, _)
SvLinksFrom(bs, k, seen, links) ==
    IF k > Len(bs) THEN links
    ELSE LET b == bs[k]
             mate == IF b.mateId # NoMate /\ b.id \notin seen
                     THEN ById(bs, b.mateId) ELSE NoBreakend
         IN  IF mate # NoBreakend
             THEN SvLinksFrom(bs, k + 1, seen \cup {b.id, mate.id},
                     Append(links, [type |-> "SV", breakend1 |-> b,
                                    breakend2 |-> mate]))
             ELSE SvLinksFrom(bs, k + 1, seen, links)

buildSvLinks(bs) == SvLinksFrom(bs, 1, {}, << >>)

\* ------------------------------------------------------- buildTiAndDbLinks
isFacingPair(a, b) ==
    IF a.chr # b.chr THEN FALSE
    ELSE LET lower == IF a.pos <= b.pos THEN a ELSE b
             upper == IF a.pos <= b.pos THEN b ELSE a
         IN  lower.orientation = -1 /\ upper.orientation = 1

isDeletionBridge(a, b) ==
    IF a.chr # b.chr THEN FALSE
    ELSE LET lower == IF a.pos <= b.pos THEN a ELSE b
             upper == IF a.pos <= b.pos THEN b ELSE a
         IN  lower.orientation = 1 /\ upper.orientation = -1

\* byChr.keys(): a Map iterates in insertion order
ByChrKeys(bs) == FirstAppearance(bs, 1, << >>)

\* byChr.get(chr): the breakends of the chromosome in list order
ByChr(bs, chr) == SelectSeq(bs, LAMBDA b : b.chr = chr)

\* Array.prototype.sort((a, b) => a.pos - b.pos), which is stable
RECURSIVE InsertByPos(_, _)
InsertByPos(sorted, x) ==
    IF sorted = << >> THEN << x >>
    ELSE IF sorted[Len(sorted)].pos - x.pos <= 0 THEN Append(sorted, x)
    ELSE Append(InsertByPos(SubSeq(sorted, 1, Len(sorted) - 1), x),
                sorted[Len(sorted)])

RECURSIVE SortByPosFrom(_, _, _)
SortByPosFrom(list, k, acc) ==
    IF k > Len(list) THEN acc
    ELSE SortByPosFrom(list, k + 1, InsertByPos(acc, list[k]))

SortByPos(list) == SortByPosFrom(list, 1, << >>)

\* the pairs (i, j) of the two nested loops, in the order they are visited
RECURSIVE PairsFrom(_, _, _)
PairsFrom(n, i, j) ==
    IF i > n THEN << >>
    ELSE IF j > n THEN PairsFrom(n, i + 1, i + 2)
    ELSE << << i, j >> >> \o PairsFrom(n, i, j + 1)

\* what the loop body pushes for the pair (a, b): "TI", "DB" or nothing
LinkKind(a, b) ==
    IF a.mateId = b.id \/ b.mateId = a.id THEN "none"
    ELSE IF isFacingPair(a, b) THEN "TI"
    ELSE IF isDeletionBridge(a, b) THEN "DB"
    ELSE "none"

\* the links of one kind pushed for one chromosome
ChrLinks(sorted, kind) ==
    LET ps == SelectSeq(PairsFrom(Len(sorted), 1, 2),
                  LAMBDA p : LinkKind(sorted[p[1]], sorted[p[2]]) = kind)
    IN  [ k \in 1..Len(ps) |->
            [type |-> kind, breakend1 |-> sorted[ps[k][1]],
             breakend2 |-> sorted[ps[k][2]]] ]

RECURSIVE LinksFrom(_, _, _, _)
LinksFrom(bs, keys, k, kind) ==
    IF k > Len(keys) THEN << >>
    ELSE ChrLinks(SortByPos(ByChr(bs, keys[k])), kind)
         \o LinksFrom(bs, keys, k + 1, kind)

buildTiAndDbLinks(bs) ==
    [tiLinks |-> LinksFrom(bs, ByChrKeys(bs), 1, "TI"),
     dbLinks |-> LinksFrom(bs, ByChrKeys(bs), 1, "DB")]

\* ------------------------------------------------------------ buildChains
\* A score is the fraction num/den (den > 0): 4, 3, 2 or 1 / (1 + dist).
Score(num, den) == [num |-> num, den |-> den]

\* the sign of a.score - b.score
ScoreCmp(a, b) == a.num * b.den - b.num * a.den

NoJcn == -1
NoUncertainty == -1

Abs(x) == IF x < 0 THEN -x ELSE x

\* linkCounts.get(id) ?? 0
LinkCount(links, id) ==
    Cardinality({ k \in DOMAIN links : links[k].breakend1.id = id })
    + Cardinality({ k \in DOMAIN links : links[k].breakend2.id = id })

\* jcn and jcnUncertainty count in halves, so 0.5 is 1
scoreTiLink(link, links) ==
    LET count1 == LinkCount(links, link.breakend1.id)
        count2 == LinkCount(links, link.breakend2.id)
        diff == Abs(link.breakend1.jcn - link.breakend2.jcn)
        unc1 == IF link.breakend1.jcnUncertainty = NoUncertainty THEN 1
                ELSE link.breakend1.jcnUncertainty
        unc2 == IF link.breakend2.jcnUncertainty = NoUncertainty THEN 1
                ELSE link.breakend2.jcnUncertainty
        dist == Abs(link.breakend1.pos - link.breakend2.pos)
    IN  IF count1 = 1 \/ count2 = 1
        THEN [priority |-> "ONLY", score |-> Score(4, 1)]
        ELSE IF /\ link.breakend1.jcn # NoJcn /\ link.breakend2.jcn # NoJcn
                /\ (diff < 1 \/ diff < unc1 + unc2)
        THEN [priority |-> "JCN_MATCH", score |-> Score(2, 1)]
        ELSE [priority |-> "NEAREST", score |-> Score(1, 1 + dist)]

\* the comparator of the sort in markAdjacentLinks; localeCompare orders the
\* chromosome names as their numbers are ordered
ChrPosCmp(a, b) == IF a.chr = b.chr THEN a.pos - b.pos ELSE a.chr - b.chr

RECURSIVE InsertByChrPos(_, _)
InsertByChrPos(sorted, x) ==
    IF sorted = << >> THEN << x >>
    ELSE IF ChrPosCmp(sorted[Len(sorted)], x) <= 0 THEN Append(sorted, x)
    ELSE Append(InsertByChrPos(SubSeq(sorted, 1, Len(sorted) - 1), x),
                sorted[Len(sorted)])

RECURSIVE SortByChrPosFrom(_, _, _)
SortByChrPosFrom(list, k, acc) ==
    IF k > Len(list) THEN acc
    ELSE SortByChrPosFrom(list, k + 1, InsertByChrPos(acc, list[k]))

\* adjacentPairs, as a set of pairs of ids
AdjacentPairs(bs) ==
    LET sorted == SortByChrPosFrom(bs, 1, << >>)
        adj == { i \in 1..(Len(sorted) - 1) : sorted[i].chr = sorted[i + 1].chr }
    IN  { << sorted[i].id, sorted[i + 1].id >> : i \in adj }
        \cup { << sorted[i + 1].id, sorted[i].id >> : i \in adj }

\* scores, by the place of the link in the list
markAdjacentLinks(links, bs) ==
    [ k \in DOMAIN links |->
        LET base == scoreTiLink(links[k], links)
            key == << links[k].breakend1.id, links[k].breakend2.id >>
        IN  IF key \in AdjacentPairs(bs) /\ base.priority = "NEAREST"
            THEN [priority |-> "ADJACENT", score |-> Score(3, 1)]
            ELSE base ]

makeSegment(b1, b2) ==
    IF b1.chr # b2.chr
    THEN [chr |-> b1.chr, start |-> b1.pos, end |-> b1.pos,
          orientation |-> "forward"]
    ELSE LET lower == IF b1.pos <= b2.pos THEN b1 ELSE b2
             upper == IF b1.pos <= b2.pos THEN b2 ELSE b1
         IN  [chr |-> lower.chr, start |-> lower.pos, end |-> upper.pos,
              orientation |-> "forward"]

\* a PartialChain
Partial(segments, breakendOrder, startBreakend, endBreakend) ==
    [segments |-> segments, breakendOrder |-> breakendOrder,
     startBreakend |-> startBreakend, endBreakend |-> endBreakend]

\* the partial chains pushed for the SV links
SeedChains(sv) ==
    [ k \in DOMAIN sv |->
        Partial(<< >>, << sv[k].breakend1, sv[k].breakend2 >>,
                sv[k].breakend1, sv[k].breakend2) ]

\* the places in availableTiLinks of the links of scoredLinks, in its order:
\* filter, then a stable sort by descending score
RECURSIVE InsertByScore(_, _, _)
InsertByScore(sorted, k, sc) ==
    IF sorted = << >> THEN << k >>
    ELSE IF ScoreCmp(sc[k].score, sc[sorted[Len(sorted)]].score) <= 0
    THEN Append(sorted, k)
    ELSE Append(InsertByScore(SubSeq(sorted, 1, Len(sorted) - 1), k, sc),
                sorted[Len(sorted)])

RECURSIVE ScoredLinksFrom(_, _, _, _, _)
ScoredLinksFrom(links, sc, used, k, acc) ==
    IF k > Len(links) THEN acc
    ELSE ScoredLinksFrom(links, sc, used, k + 1,
            IF links[k].breakend1.id \notin used
               \/ links[k].breakend2.id \notin used
            THEN InsertByScore(acc, k, sc) ELSE acc)

\* scoredLinks without the filter on usedBreakends
ScoredLinksUnfiltered(links, sc, used) ==
    ScoredLinksFrom(links, sc, {}, 1, << >>)

ScoredLinks(links, sc, used) == ScoredLinksFrom(links, sc, used, 1, << >>)

\* the result of the `for (let i = 0; i < chains.length; i++)` search for one
\* breakend id: the last chain with the id at an open end (0 when none; the
\* code's -1) and which end, the start being tested first
FindChain(cs, id) ==
    LET hits == { i \in DOMAIN cs : cs[i].startBreakend.id = id
                                     \/ cs[i].endBreakend.id = id }
        idx == IF hits = {} THEN 0
               ELSE CHOOSE i \in hits : \A j \in hits : j <= i
    IN  [idx |-> idx,
         end |-> IF idx = 0 THEN "null"
                 ELSE IF cs[idx].startBreakend.id = id THEN "start"
                 ELSE "end"]

\* a splice that removes nothing
RemoveNone(seq, i) == seq

\* chains.splice(i, 1)
RemoveAt(seq, i) ==
    [ k \in 1..(Len(seq) - 1) |-> IF k < i THEN seq[k] ELSE seq[k + 1] ]

\* the loop body without the test chain1Idx !== chain2Idx of the merge
ApplyLinkWithinChain(cs, used, link) ==
    LET c1 == FindChain(cs, link.breakend1.id)
        c2 == FindChain(cs, link.breakend2.id)
        seg == makeSegment(link.breakend1, link.breakend2)
    IN  IF c1.idx > 0 /\ c2.idx > 0
        THEN LET a == cs[c1.idx]
                 b == cs[c2.idx]
                 merged ==
                    Partial(a.segments \o << seg >> \o b.segments,
                            a.breakendOrder \o b.breakendOrder,
                            IF c1.end = "end" THEN a.startBreakend
                            ELSE a.endBreakend,
                            IF c2.end = "start" THEN b.endBreakend
                            ELSE b.startBreakend)
             IN  [chains |-> RemoveAt([cs EXCEPT ![c1.idx] = merged], c2.idx),
                  used |-> used \cup {link.breakend1.id, link.breakend2.id},
                  applied |-> TRUE, how |-> "merge"]
        ELSE IF c1.idx > 0 /\ c2.idx = 0
        THEN LET c == cs[c1.idx]
                 ext == Partial(Append(c.segments, seg),
                                Append(c.breakendOrder, link.breakend2),
                                IF c1.end = "end" THEN c.startBreakend
                                ELSE link.breakend2,
                                IF c1.end = "end" THEN link.breakend2
                                ELSE c.endBreakend)
             IN  [chains |-> [cs EXCEPT ![c1.idx] = ext],
                  used |-> used \cup {link.breakend1.id},
                  applied |-> TRUE, how |-> "extend1"]
        ELSE IF c2.idx > 0 /\ c1.idx = 0
        THEN LET c == cs[c2.idx]
                 ext == Partial(Append(c.segments, seg),
                                Append(c.breakendOrder, link.breakend1),
                                IF c2.end = "end" THEN c.startBreakend
                                ELSE link.breakend1,
                                IF c2.end = "end" THEN link.breakend1
                                ELSE c.endBreakend)
             IN  [chains |-> [cs EXCEPT ![c2.idx] = ext],
                  used |-> used \cup {link.breakend2.id},
                  applied |-> TRUE, how |-> "extend2"]
        ELSE [chains |-> cs, used |-> used, applied |-> FALSE, how |-> "none"]

\* the three branches of the loop body for one link: the chains and the used
\* set after it, whether the link was applied, and by which branch
ApplyLink(cs, used, link) ==
    LET c1 == FindChain(cs, link.breakend1.id)
        c2 == FindChain(cs, link.breakend2.id)
        seg == makeSegment(link.breakend1, link.breakend2)
    IN  IF c1.idx > 0 /\ c2.idx > 0 /\ c1.idx # c2.idx
        THEN LET a == cs[c1.idx]
                 b == cs[c2.idx]
                 merged ==
                    Partial(a.segments \o << seg >> \o b.segments,
                            a.breakendOrder \o b.breakendOrder,
                            IF c1.end = "end" THEN a.startBreakend
                            ELSE a.endBreakend,
                            IF c2.end = "start" THEN b.endBreakend
                            ELSE b.startBreakend)
             IN  [chains |-> RemoveAt([cs EXCEPT ![c1.idx] = merged], c2.idx),
                  used |-> used \cup {link.breakend1.id, link.breakend2.id},
                  applied |-> TRUE, how |-> "merge"]
        ELSE IF c1.idx > 0 /\ c2.idx = 0
        THEN LET c == cs[c1.idx]
                 ext == Partial(Append(c.segments, seg),
                                Append(c.breakendOrder, link.breakend2),
                                IF c1.end = "end" THEN c.startBreakend
                                ELSE link.breakend2,
                                IF c1.end = "end" THEN link.breakend2
                                ELSE c.endBreakend)
             IN  [chains |-> [cs EXCEPT ![c1.idx] = ext],
                  used |-> used \cup {link.breakend1.id},
                  applied |-> TRUE, how |-> "extend1"]
        ELSE IF c2.idx > 0 /\ c1.idx = 0
        THEN LET c == cs[c2.idx]
                 ext == Partial(Append(c.segments, seg),
                                Append(c.breakendOrder, link.breakend1),
                                IF c2.end = "end" THEN c.startBreakend
                                ELSE link.breakend1,
                                IF c2.end = "end" THEN link.breakend1
                                ELSE c.endBreakend)
             IN  [chains |-> [cs EXCEPT ![c2.idx] = ext],
                  used |-> used \cup {link.breakend2.id},
                  applied |-> TRUE, how |-> "extend2"]
        ELSE [chains |-> cs, used |-> used, applied |-> FALSE, how |-> "none"]

\* one pass of `for (const { link } of scoredLinks)`: the first link of the
\* order that one of the branches applies, 0 when the pass applies none
FirstApplied(cs, used, links, order) ==
    LET ok == { n \in DOMAIN order :
                  ApplyLink(cs, used, links[order[n]]).applied }
    IN  IF ok = {} THEN 0
        ELSE order[CHOOSE n \in ok : \A m \in ok : n <= m]

NoBreakendRef == [id |-> 0]

\* chains.map(...): PartialChain to Chain; null is NoBreakendRef
ToChain(c) ==
    LET isClosed == c.startBreakend.id = c.endBreakend.id
    IN  [segments |-> c.segments,
         openStart |-> IF isClosed THEN NoBreakendRef ELSE c.startBreakend,
         openEnd |-> IF isClosed THEN NoBreakendRef ELSE c.endBreakend,
         isClosed |-> isClosed]

\* the `while (changed)` loop: the chains when a pass applies no link
RECURSIVE ChainLoop(_, _, _, _)
ChainLoop(cs, used, links, sc) ==
    LET k == FirstApplied(cs, used, links, ScoredLinks(links, sc, used))
    IN  IF k = 0 THEN cs
        ELSE LET r == ApplyLink(cs, used, links[k])
             IN  ChainLoop(r.chains, r.used, links, sc)

buildChains(bs, sv, ti) ==
    LET cs == ChainLoop(SeedChains(sv), {}, ti, markAdjacentLinks(ti, bs))
    IN  [ k \in DOMAIN cs |-> ToChain(cs[k]) ]

\* ---------------------------------------------------------- classifyChain
\* classifyChain that looks at the open ends whatever the number of segments
classifyChainByOpenEnds(chain) ==
    IF chain.isClosed THEN "COMPLEX"
    ELSE IF /\ chain.openStart # NoBreakendRef
            /\ chain.openEnd # NoBreakendRef
    THEN LET b1 == chain.openStart
             b2 == chain.openEnd
             lower == IF b1.pos <= b2.pos THEN b1 ELSE b2
             upper == IF b1.pos <= b2.pos THEN b2 ELSE b1
         IN  IF b1.chr # b2.chr THEN "TRA"
             ELSE IF lower.orientation = 1 /\ upper.orientation = -1 THEN "DEL"
             ELSE IF lower.orientation = -1 /\ upper.orientation = 1 THEN "DUP"
             ELSE IF lower.orientation = upper.orientation THEN "INV"
             ELSE "UNKNOWN"
    ELSE IF Len(chain.segments) = 0 THEN "UNKNOWN"
    ELSE LET chrs == { chain.segments[k].chr : k \in DOMAIN chain.segments }
             hasInversion == \E k \in DOMAIN chain.segments :
                                chain.segments[k].orientation = "reverse"
         IN  IF Cardinality(chrs) > 1
             THEN (IF Len(chain.segments) > 2 THEN "COMPLEX" ELSE "TRA")
             ELSE IF Len(chain.segments) = 2 /\ hasInversion THEN "INV"
             ELSE IF Len(chain.segments) > 2 THEN "COMPLEX"
             ELSE "UNKNOWN"

classifyChain(chain) ==
    IF chain.isClosed THEN "COMPLEX"
    ELSE IF /\ chain.openStart # NoBreakendRef
            /\ chain.openEnd # NoBreakendRef
            /\ Len(chain.segments) <= 1
    THEN LET b1 == chain.openStart
             b2 == chain.openEnd
             lower == IF b1.pos <= b2.pos THEN b1 ELSE b2
             upper == IF b1.pos <= b2.pos THEN b2 ELSE b1
         IN  IF b1.chr # b2.chr THEN "TRA"
             ELSE IF lower.orientation = 1 /\ upper.orientation = -1 THEN "DEL"
             ELSE IF lower.orientation = -1 /\ upper.orientation = 1 THEN "DUP"
             ELSE IF lower.orientation = upper.orientation THEN "INV"
             ELSE "UNKNOWN"
    ELSE IF Len(chain.segments) = 0 THEN "UNKNOWN"
    ELSE LET chrs == { chain.segments[k].chr : k \in DOMAIN chain.segments }
             hasInversion == \E k \in DOMAIN chain.segments :
                                chain.segments[k].orientation = "reverse"
         IN  IF Cardinality(chrs) > 1
             THEN (IF Len(chain.segments) > 2 THEN "COMPLEX" ELSE "TRA")
             ELSE IF Len(chain.segments) = 2 /\ hasInversion THEN "INV"
             ELSE IF Len(chain.segments) > 2 THEN "COMPLEX"
             ELSE "UNKNOWN"

\* classifyChains, by the place of the chain in the list
classifyChains(cs) == [ k \in DOMAIN cs |-> classifyChain(cs[k]) ]

\* ------------------------------------------------------- clusterBreakends
DEFAULT_PROXIMITY == 5000
NoEvent == 0

\* byEvent.keys(): the event tags in order of first appearance
RECURSIVE EventKeys(_, _, _)
EventKeys(bs, k, acc) ==
    IF k > Len(bs) THEN acc
    ELSE EventKeys(bs, k + 1,
            IF bs[k].event = NoEvent \/ \E j \in DOMAIN acc : acc[j] = bs[k].event
            THEN acc ELSE Append(acc, bs[k].event))

\* first pass: one cluster per event tag
EventClusters(bs) ==
    LET keys == EventKeys(bs, 1, << >>)
    IN  [ k \in DOMAIN keys |->
            [breakends |-> SelectSeq(bs, LAMBDA b : b.event = keys[k]),
             event |-> keys[k]] ]

\* second pass: a cluster for every unassigned breakend whose mate resolves
\* and is unassigned
RECURSIVE MateClusters(_, _, _, _)
MateClusters(bs, k, assigned, acc) ==
    IF k > Len(bs) THEN [clusters |-> acc, assigned |-> assigned]
    ELSE LET b == bs[k]
             mate == IF b.id \notin assigned THEN MateOf(bs, b) ELSE NoBreakend
         IN  IF mate # NoBreakend /\ mate.id \notin assigned
             THEN MateClusters(bs, k + 1, assigned \cup {b.id, mate.id},
                     Append(acc, [breakends |-> << b, mate >>,
                                  event |-> NoEvent]))
             ELSE MateClusters(bs, k + 1, assigned, acc)

\* third pass, one chromosome: the sorted breakends cut where two neighbours
\* are more than the threshold apart
RECURSIVE ProximityRuns(_, _, _, _, _)
ProximityRuns(sorted, i, current, threshold, acc) ==
    IF i > Len(sorted)
    THEN Append(acc, [breakends |-> current, event |-> NoEvent])
    ELSE IF sorted[i].pos - sorted[i - 1].pos <= threshold
    THEN ProximityRuns(sorted, i + 1, Append(current, sorted[i]), threshold, acc)
    ELSE ProximityRuns(sorted, i + 1, << sorted[i] >>, threshold,
            Append(acc, [breakends |-> current, event |-> NoEvent]))

RECURSIVE ProximityClusters(_, _, _, _)
ProximityClusters(unassigned, keys, k, threshold) ==
    IF k > Len(keys) THEN << >>
    ELSE LET sorted == SortByPos(ByChr(unassigned, keys[k]))
         IN  ProximityRuns(sorted, 2, << sorted[1] >>, threshold, << >>)
             \o ProximityClusters(unassigned, keys, k + 1, threshold)

\* the clusters in the order they are pushed; cluster_n is the n-th of them
clusterBreakends(bs, proximityThreshold) ==
    LET first == EventClusters(bs)
        tagged == { bs[i].id : i \in { j \in DOMAIN bs : bs[j].event # NoEvent } }
        second == MateClusters(bs, 1, tagged, << >>)
        unassigned == SelectSeq(bs, LAMBDA b : b.id \notin second.assigned)
    IN  first \o second.clusters
        \o ProximityClusters(unassigned, ByChrKeys(unassigned), 1,
                              proximityThreshold)

\* -------------------------------------------------------- filterLinksByCN
\* 0.15 as the fraction 3/20
JCN_ZERO_THRESHOLD == [num |-> 3, den |-> 20]

\* majorAlleleCN and minorAlleleCN count in quarters of a copy
CnUnit == 4

Max(a, b) == IF a >= b THEN a ELSE b
Min(a, b) == IF a <= b THEN a ELSE b

\* Overlapping without the test of the chromosome
OverlappingAnyChr(chr, start, end, cnSegments) ==
    SelectSeq(cnSegments, LAMBDA s : s.end > start /\ s.start < end)

\* cnSegments.filter(s => s.chr === chr && s.end > start && s.start < end)
Overlapping(chr, start, end, cnSegments) ==
    SelectSeq(cnSegments,
        LAMBDA s : s.chr = chr /\ s.end > start /\ s.start < end)

\* the overlap of s with [start, end) counted by the full length of s
FullLen(s, start, end) == s.end - s.start

\* len of the loop body
OverlapLen(s, start, end) == Min(s.end, end) - Max(s.start, start)

RECURSIVE TotalsFrom(_, _, _, _, _)
TotalsFrom(overlapping, k, start, end, acc) ==
    IF k > Len(overlapping) THEN acc
    ELSE LET s == overlapping[k]
             len == OverlapLen(s, start, end)
         IN  TotalsFrom(overlapping, k + 1, start, end,
                [totalCN |-> acc.totalCN
                               + (s.majorAlleleCN + s.minorAlleleCN) * len,
                 totalLen |-> acc.totalLen + len])

\* segmentClusterJcn as the fraction num/den (in copies), or undefined
segmentClusterJcn(chr, start, end, cnSegments, backgroundPloidy) ==
    LET overlapping == Overlapping(chr, start, end, cnSegments)
        t == TotalsFrom(overlapping, 1, start, end,
                        [totalCN |-> 0, totalLen |-> 0])
    IN  IF Len(overlapping) = 0 \/ t.totalLen = 0
        THEN [defined |-> FALSE, num |-> 0, den |-> 1]
        ELSE [defined |-> TRUE,
              num |-> t.totalCN - backgroundPloidy * CnUnit * t.totalLen,
              den |-> CnUnit * t.totalLen]

\* the predicate of links.filter
KeepLink(link, cnSegments, backgroundPloidy) ==
    LET b1 == link.breakend1
        b2 == link.breakend2
        clusterJcn == segmentClusterJcn(b1.chr, Min(b1.pos, b2.pos),
                          Max(b1.pos, b2.pos), cnSegments, backgroundPloidy)
    IN  IF b1.chr # b2.chr THEN TRUE
        ELSE IF ~clusterJcn.defined THEN TRUE
        ELSE IF clusterJcn.den > 0
        THEN clusterJcn.num * JCN_ZERO_THRESHOLD.den
                >= JCN_ZERO_THRESHOLD.num * clusterJcn.den
        ELSE clusterJcn.num * JCN_ZERO_THRESHOLD.den
                <= JCN_ZERO_THRESHOLD.num * clusterJcn.den

RECURSIVE FilterFrom(_, _, _, _)
FilterFrom(links, k, cnSegments, backgroundPloidy) ==
    IF k > Len(links) THEN << >>
    ELSE (IF KeepLink(links[k], cnSegments, backgroundPloidy)
          THEN << links[k] >> ELSE << >>)
         \o FilterFrom(links, k + 1, cnSegments, backgroundPloidy)

filterLinksByCN(links, bs, cnSegments, backgroundPloidy) ==
    FilterFrom(links, 1, cnSegments, backgroundPloidy)

\* ------------------------------------------------------ deriveChromosomes
\* an option that is not given
NotGiven == -1

\* the default of the parameter backgroundPloidy
DEFAULT_PLOIDY == 2

\* a parameter with a default value
OrDefault(x, default) == IF x = NotGiven THEN default ELSE x

\* step 3: the TI links that go to buildChains
FilterStepLinks(ti, bs, opts) ==
    IF Len(opts.cnSegments) > 0
    THEN filterLinksByCN(ti, bs, opts.cnSegments,
                         OrDefault(opts.backgroundPloidy, DEFAULT_PLOIDY))
    ELSE ti

\* deriveChromosomes with the graph built cluster by cluster
deriveChromosomesPerCluster(bs, opts) ==
    LET cl == clusterBreakends(bs,
                  OrDefault(opts.proximityThreshold, DEFAULT_PROXIMITY))
        ChainsOf[k \in 0..Len(cl)] ==
            IF k = 0 THEN << >>
            ELSE LET part == cl[k].breakends
                     ti == FilterStepLinks(buildTiAndDbLinks(part).tiLinks,
                                           part, opts)
                 IN  ChainsOf[k - 1] \o buildChains(part, buildSvLinks(part), ti)
    IN  [chains |-> ChainsOf[Len(cl)]]

deriveChromosomes(bs, opts) ==
    LET cl == clusterBreakends(bs,
                  OrDefault(opts.proximityThreshold, DEFAULT_PROXIMITY))
        sv == buildSvLinks(bs)
        ti == FilterStepLinks(buildTiAndDbLinks(bs).tiLinks, bs, opts)
    IN  [chains |-> buildChains(bs, sv, ti)]

\* ----------------------------------------------------------- parseVcfLines
\* An ALT field is a sequence of tokens: a base, a bracket, a colon, a
\* chromosome name or a run of digits.
Bases == {"N"}
Brackets == {"[", "]"}
ChrTokens == << "chr1", "chr2" >>
Digits == << "1", "2", "3", "4" >>

\* the chromosome that a name stands for
ChrOf(name) == CHOOSE c \in DOMAIN ChrTokens : ChrTokens[c] = name

\* Number(matePosStr)
Number(str) == CHOOSE n \in DOMAIN Digits : Digits[n] = str

\* the value of parseAlt and of parseBreakendRecord when the ALT field is
\* not a breakend
Undefined == [undefined |-> TRUE]

\* the tokens that `.` matches: the ones of a single character
IsChar(tok) == \A c \in DOMAIN ChrTokens : tok # ChrTokens[c]

\* alt.match(/^(.?)(\[|\])(.+?):(\d+)(\[|\])(.?)$/), the mate's chromosome
\* name being one token: whether it matches with p tokens for the first
\* group and q tokens for the last
BracketMatch(alt, p, q) ==
    /\ Len(alt) = p + 5 + q
    /\ p = 1 => IsChar(alt[1])
    /\ alt[p + 1] \in Brackets
    /\ \E c \in DOMAIN ChrTokens : alt[p + 2] = ChrTokens[c]
    /\ alt[p + 3] = ":"
    /\ \E n \in DOMAIN Digits : alt[p + 4] = Digits[n]
    /\ alt[p + 5] \in Brackets
    /\ q = 1 => IsChar(alt[Len(alt)])

\* parseAlt with mateOrientation the side of the mate that the bracket
\* leaves out
parseAltFacing(alt) ==
    LET ms == { m \in {0, 1} \X {0, 1} : BracketMatch(alt, m[1], m[2]) }
    IN  IF ms = {} THEN Undefined
        ELSE LET m == CHOOSE x \in ms : TRUE
                 prefixBase == m[1] = 1
                 suffixBase == m[2] = 1
                 bracket1 == alt[m[1] + 1]
             IN  IF prefixBase = suffixBase THEN Undefined
                 ELSE [mateChr |-> ChrOf(alt[m[1] + 2]),
                       matePos |-> Number(alt[m[1] + 4]),
                       orientation |-> IF prefixBase THEN 1 ELSE -1,
                       mateOrientation |-> IF bracket1 = "]" THEN 1 ELSE -1]

parseAlt(alt) ==
    LET ms == { m \in {0, 1} \X {0, 1} : BracketMatch(alt, m[1], m[2]) }
    IN  IF ms = {} THEN Undefined
        ELSE LET m == CHOOSE x \in ms : TRUE
                 prefixBase == m[1] = 1
                 suffixBase == m[2] = 1
                 bracket1 == alt[m[1] + 1]
             IN  IF prefixBase = suffixBase THEN Undefined
                 ELSE [mateChr |-> ChrOf(alt[m[1] + 2]),
                       matePos |-> Number(alt[m[1] + 4]),
                       orientation |-> IF prefixBase THEN 1 ELSE -1,
                       mateOrientation |-> IF bracket1 = "]" THEN -1 ELSE 1]

\* the INFO key is absent
NoInfo == "."

parseBreakendRecord(fields) ==
    LET parsed == parseAlt(fields.alt)
    IN  IF parsed = Undefined THEN Undefined
        ELSE [id |-> fields.id, chr |-> fields.chrom, pos |-> fields.pos,
              orientation |-> parsed.orientation,
              mateId |-> fields.info.MATEID,
              mateChr |-> parsed.mateChr, matePos |-> parsed.matePos,
              mateOrientation |-> parsed.mateOrientation,
              event |-> fields.info.EVENT, jcn |-> fields.info.JCN,
              jcnUncertainty |-> fields.info.JCNUNCERT]

\* A line is a header line (it starts with #), a blank line, or a data line,
\* given by its columns and the keys of its INFO column. One turn of the
\* loop of parseVcfLines: the breakend list after the line.
ParseOneLine(bs, line) ==
    IF line.kind # "data" THEN bs
    ELSE IF line.info.SVTYPE # "BND" THEN bs
    ELSE LET breakend ==
                 parseBreakendRecord([chrom |-> line.chrom, pos |-> line.pos,
                                      id |-> line.id, alt |-> line.alt,
                                      info |-> line.info])
         IN  IF breakend = Undefined THEN bs ELSE Append(bs, breakend)

RECURSIVE parseVcfLines(_)
parseVcfLines(ls) ==
    IF ls = << >> THEN << >>
    ELSE ParseOneLine(parseVcfLines(SubSeq(ls, 1, Len(ls) - 1)), ls[Len(ls)])

\* ------------------------------------------------------------------ state
VARIABLES
    breakends,            \* the input list
    pc,                   \* position in the call
    allSegments,          \* refSegments
    externalConnections,  \* port -> port
    sortedFreePorts,      \* the start ports, in walk order
    next,                 \* place of the next start port in sortedFreePorts
    visited,              \* segment indices entered
    chains,               \* the chains emitted
    orphanIndices,
    svLinks,              \* buildGraph(...).svLinks
    tiLinks,              \* buildGraph(...).tiLinks
    dbLinks,              \* buildGraph(...).dbLinks
    options,              \* the options of deriveChromosomes
    clusters,             \* clusterBreakends(...)
    keptTiLinks,          \* the TI links given to buildChains
    scores,               \* buildChains: scores, by place in keptTiLinks
    partialChains,        \* buildChains: chains
    usedBreakends,        \* buildChains: usedBreakends
    appliedLinks,         \* buildChains: the links applied so far, in order
    result,               \* what deriveChromosomes returns
    classes,              \* classifyChains(result.chains)
    lines,                \* the records given to parseVcfLines
    lineNo                \* parseVcfLines: the records read so far

\* the variables of the walker alone
walkVars == << allSegments, externalConnections, sortedFreePorts, next,
               visited, chains, orphanIndices >>

\* the variables of buildGraph
graphVars == << svLinks, tiLinks, dbLinks >>

\* the variables of deriveChromosomes, buildChains and classifyChains
deriveVars == << options, clusters, keptTiLinks, scores, partialChains,
                 usedBreakends, appliedLinks, result, classes >>

\* the variables of parseVcfLines
parseVars == << lines, lineNo >>

vars == << breakends, pc, walkVars, graphVars, deriveVars, parseVars >>

NoOptions ==
    [cnSegments |-> << >>, backgroundPloidy |-> NotGiven,
     proximityThreshold |-> NotGiven]

WalkIdle ==
    /\ allSegments = << >>
    /\ externalConnections = << >>
    /\ sortedFreePorts = << >>
    /\ next = 1
    /\ visited = {}
    /\ chains = << >>
    /\ orphanIndices = << >>

GraphIdle ==
    /\ svLinks = << >>
    /\ tiLinks = << >>
    /\ dbLinks = << >>

DeriveIdle ==
    /\ options = NoOptions
    /\ clusters = << >>
    /\ keptTiLinks = << >>
    /\ scores = << >>
    /\ partialChains = << >>
    /\ usedBreakends = {}
    /\ appliedLinks = << >>
    /\ result = [chains |-> << >>]
    /\ classes = << >>

ParseIdle ==
    /\ lines = << >>
    /\ lineNo = 0

Init ==
    /\ \/ ArbitraryInput(breakends)
       \/ PairedInput(breakends)
       \/ StrayInput(breakends)
       \/ ChainedInput(breakends)
    /\ pc = "start"
    /\ WalkIdle
    /\ GraphIdle
    /\ DeriveIdle
    /\ ParseIdle

\* buildGraph: the three edge lists of the input, asked for instead of the
\* walk or after it
BuildGraph ==
    /\ pc \in {"start", "done"}
    /\ svLinks' = buildSvLinks(breakends)
    /\ tiLinks' = buildTiAndDbLinks(breakends).tiLinks
    /\ dbLinks' = buildTiAndDbLinks(breakends).dbLinks
    /\ pc' = IF pc = "start" THEN "graph" ELSE "both"
    /\ UNCHANGED << breakends, allSegments, externalConnections,
                    sortedFreePorts, next, visited, chains, orphanIndices >>
    /\ UNCHANGED << deriveVars, parseVars >>

\* walkBreakends steps 1 and 2
Segment ==
    /\ pc = "start"
    /\ allSegments' = BuildSegments(breakends)
    /\ pc' = "wire"
    /\ UNCHANGED << breakends, externalConnections, sortedFreePorts, next,
                    visited, chains, orphanIndices, svLinks, tiLinks,
                    dbLinks >>
    /\ UNCHANGED << deriveVars, parseVars >>

\* walkBreakends step 3
Wire ==
    /\ pc = "wire"
    /\ externalConnections' = BuildConnections(breakends, allSegments)
    /\ pc' = "ports"
    /\ UNCHANGED << breakends, allSegments, sortedFreePorts, next, visited,
                    chains, orphanIndices, svLinks, tiLinks,
                    dbLinks >>
    /\ UNCHANGED << deriveVars, parseVars >>

\* the free ports and their order
FindFreePorts ==
    /\ pc = "ports"
    /\ sortedFreePorts' = SortedFreePorts(allSegments, externalConnections)
    /\ next' = 1
    /\ pc' = "walk"
    /\ UNCHANGED << breakends, allSegments, externalConnections, visited,
                    chains, orphanIndices, svLinks, tiLinks,
                    dbLinks >>
    /\ UNCHANGED << deriveVars, parseVars >>

\* a start port whose segment was already entered: `continue`
SkipPort ==
    /\ pc = "walk"
    /\ next <= Len(sortedFreePorts)
    /\ sortedFreePorts[next].index \in visited
    /\ next' = next + 1
    /\ UNCHANGED << breakends, pc, allSegments, externalConnections,
                    sortedFreePorts, visited, chains, orphanIndices, svLinks,
                    tiLinks, dbLinks >>
    /\ UNCHANGED << deriveVars, parseVars >>

\* walk one chain from the next start port
WalkChain ==
    /\ pc = "walk"
    /\ next <= Len(sortedFreePorts)
    /\ sortedFreePorts[next].index \notin visited
    /\ LET r == WalkFrom(sortedFreePorts[next], visited, allSegments,
                         externalConnections)
       IN  /\ visited' = r.visited
           /\ chains' = IF Len(r.chain) > 0 THEN Append(chains, r.chain)
                        ELSE chains
    /\ next' = next + 1
    /\ UNCHANGED << breakends, pc, allSegments, externalConnections,
                    sortedFreePorts, orphanIndices, svLinks, tiLinks,
                    dbLinks >>
    /\ UNCHANGED << deriveVars, parseVars >>

\* the segments never entered, and return
CollectOrphans ==
    /\ pc = "walk"
    /\ next > Len(sortedFreePorts)
    /\ orphanIndices' = Orphans(allSegments, visited)
    /\ pc' = "done"
    /\ UNCHANGED << breakends, allSegments, externalConnections,
                    sortedFreePorts, next, visited, chains, svLinks, tiLinks,
                    dbLinks >>
    /\ UNCHANGED << deriveVars, parseVars >>

Next ==
    \/ BuildGraph
    \/ Segment
    \/ Wire
    \/ FindFreePorts
    \/ SkipPort
    \/ WalkChain
    \/ CollectOrphans

Spec == Init /\ [][Next]_vars

\* walkBreakends has returned
Returned == pc \in {"done", "both"}

\* externalConnections is complete
Wired == pc \in {"ports", "walk", "done", "both"}

\* buildGraph has returned
GraphBuilt == pc \in {"graph", "both"}

\* walkBreakends as one function of the input list
walkBreakends(bs) ==
    LET segs == BuildSegments(bs)
        ec == BuildConnections(bs, segs)
        ports == SortedFreePorts(segs, ec)
        WalkAll[k \in 1..(Len(ports) + 1)] ==
            IF k = 1 THEN [chains |-> << >>, visited |-> {}]
            ELSE LET prev == WalkAll[k - 1]
                     p == ports[k - 1]
                 IN  IF p.index \in prev.visited THEN prev
                     ELSE LET r == WalkFrom(p, prev.visited, segs, ec)
                          IN  [chains |-> IF Len(r.chain) > 0
                                          THEN Append(prev.chains, r.chain)
                                          ELSE prev.chains,
                               visited |-> r.visited]
        w == WalkAll[Len(ports) + 1]
    IN  [refSegments |-> segs, chains |-> w.chains,
         orphanIndices |-> Orphans(segs, w.visited)]

\* the stepwise run returns what the function returns
StepsAgree ==
    Returned =>
        walkBreakends(breakends) =
            [refSegments |-> allSegments, chains |-> chains,
             orphanIndices |-> orphanIndices]

\* ------------------------------------- deriveChromosomes, step by step
\* a breakend with its event tag and its junction copy number
MkDerive(b, event, jcn, jcnUncertainty) ==
    [id |-> b.id, chr |-> b.chr, pos |-> b.pos, orientation |-> b.orientation,
     mateId |-> b.mateId, event |-> event, jcn |-> jcn,
     jcnUncertainty |-> jcnUncertainty]

\* the junction copy numbers of a list of four breakends, in halves: none
\* given; all equal; two different values; two different values that an
\* uncertainty of 1.0 makes match
JcnPatterns ==
    { [i \in 1..4 |-> [jcn |-> NoJcn, unc |-> NoUncertainty]],
      [i \in 1..4 |-> [jcn |-> 2, unc |-> NoUncertainty]],
      [i \in 1..4 |-> [jcn |-> IF i <= 2 THEN 2 ELSE 4, unc |-> NoUncertainty]],
      [i \in 1..4 |-> [jcn |-> IF i <= 2 THEN 2 ELSE 4, unc |-> 2]] }

\* two reciprocal mate pairs, with junction copy numbers and no options
DerivePairedInput ==
    /\ \E f \in [1..4 -> Attrs], m \in Matchings, p \in JcnPatterns :
          breakends = [i \in 1..4 |->
              MkDerive(MkBreakend(i, f[i], m[i]), NoEvent, p[i].jcn, p[i].unc)]
    /\ options = NoOptions

\* a CN segment list: none, or one segment over the positions of chromosome
\* 1 with no copy at all
CnChoices ==
    { << >>,
      << [chr |-> 1, start |-> 0, end |-> MaxPos + 1, majorAlleleCN |-> 0,
          minorAlleleCN |-> 0] >> }

\* a short list with arbitrary mateIds and event tags, and options
DeriveTaggedInput ==
    /\ \E n \in 0..MaxBreakends :
          \E f \in [1..n -> Attrs], e \in [1..n -> {NoEvent, 1, 2}],
             g \in { h \in [1..n -> 0..(MaxBreakends + 1)] :
                       \A i \in 1..n : h[i] # i } :
              breakends = [i \in 1..n |->
                  MkDerive(MkBreakend(i, f[i], g[i]), e[i], NoJcn,
                           NoUncertainty)]
    /\ \E cn \in CnChoices, thr \in {NotGiven, 0} :
          options = [cnSegments |-> cn, backgroundPloidy |-> NotGiven,
                     proximityThreshold |-> thr]

DeriveInit ==
    /\ DerivePairedInput \/ DeriveTaggedInput
    /\ pc = "start"
    /\ WalkIdle
    /\ GraphIdle
    /\ clusters = << >>
    /\ keptTiLinks = << >>
    /\ scores = << >>
    /\ partialChains = << >>
    /\ usedBreakends = {}
    /\ appliedLinks = << >>
    /\ result = [chains |-> << >>]
    /\ classes = << >>
    /\ ParseIdle

\* step 1
Cluster ==
    /\ pc = "start"
    /\ clusters' = clusterBreakends(breakends,
                       OrDefault(options.proximityThreshold, DEFAULT_PROXIMITY))
    /\ pc' = "clustered"
    /\ UNCHANGED << breakends, walkVars, graphVars, options, keptTiLinks,
                    scores, partialChains, usedBreakends, appliedLinks,
                    result, classes,
                    parseVars >>

\* step 2
DeriveGraph ==
    /\ pc = "clustered"
    /\ svLinks' = buildSvLinks(breakends)
    /\ tiLinks' = buildTiAndDbLinks(breakends).tiLinks
    /\ dbLinks' = buildTiAndDbLinks(breakends).dbLinks
    /\ pc' = "graphed"
    /\ UNCHANGED << breakends, walkVars, deriveVars, parseVars >>

\* step 3
FilterStep ==
    /\ pc = "graphed"
    /\ keptTiLinks' = FilterStepLinks(tiLinks, breakends, options)
    /\ pc' = "filtered"
    /\ UNCHANGED << breakends, walkVars, graphVars, options, clusters, scores,
                    partialChains, usedBreakends, appliedLinks, result,
                    classes, parseVars >>

\* buildChains up to the loop: the scores and one partial chain per SV link
SeedChainsStep ==
    /\ pc = "filtered"
    /\ scores' = markAdjacentLinks(keptTiLinks, breakends)
    /\ partialChains' = SeedChains(svLinks)
    /\ usedBreakends' = {}
    /\ appliedLinks' = << >>
    /\ pc' = "chaining"
    /\ UNCHANGED << breakends, walkVars, graphVars, options, clusters,
                    keptTiLinks, result, classes, parseVars >>

\* the link that the next pass of the loop applies, 0 when it applies none
\* (scoredLinks is filtered and sorted once, before the pass)
NextLink ==
    LET pass == { FirstApplied(partialChains, usedBreakends, keptTiLinks,
                               scoredLinks) :
                    scoredLinks \in {ScoredLinks(keptTiLinks, scores,
                                                 usedBreakends)} }
    IN  CHOOSE k \in pass : TRUE

\* one pass of `while (changed)` that applies a link
ApplyPass ==
    /\ pc = "chaining"
    /\ \E k \in {NextLink} \ {0} :
          /\ \E r \in {ApplyLink(partialChains, usedBreakends, keptTiLinks[k])} :
                /\ partialChains' = r.chains
                /\ usedBreakends' = r.used
                /\ appliedLinks' = Append(appliedLinks,
                                          [link |-> k, how |-> r.how])
    /\ UNCHANGED << breakends, pc, walkVars, graphVars, options, clusters,
                    keptTiLinks, scores, result, classes, parseVars >>

\* the pass that applies no link, and the return of deriveChromosomes
FinishChains ==
    /\ pc = "chaining"
    /\ NextLink = 0
    /\ result' = [chains |-> [ k \in DOMAIN partialChains |->
                                 ToChain(partialChains[k]) ]]
    /\ pc' = "derived"
    /\ UNCHANGED << breakends, walkVars, graphVars, options, clusters,
                    keptTiLinks, scores, partialChains, usedBreakends,
                    appliedLinks, classes,
                    parseVars >>

\* classifyChains on the chains returned
Classify ==
    /\ pc = "derived"
    /\ classes' = classifyChains(result.chains)
    /\ pc' = "classified"
    /\ UNCHANGED << breakends, walkVars, graphVars, options, clusters,
                    keptTiLinks, scores, partialChains, usedBreakends,
                    appliedLinks, result,
                    parseVars >>

DeriveNext ==
    \/ Cluster
    \/ DeriveGraph
    \/ FilterStep
    \/ SeedChainsStep
    \/ ApplyPass
    \/ FinishChains
    \/ Classify

DeriveSpec == DeriveInit /\ [][DeriveNext]_vars

\* deriveChromosomes has returned
Derived == pc \in {"derived", "classified"}

\* the stepwise run returns what the function returns
DeriveStepsAgree == Derived => result = deriveChromosomes(breakends, options)

\* ------------------------- deriveChromosomes on breakends with event tags
\* the mateIds of a list of n breakends: none, or the first two breakends
\* are each other's mates
TagMatings(n) ==
    { [i \in 1..n |-> NoMate] }
    \cup (IF n < 2 THEN {}
          ELSE { [i \in 1..n |-> IF i = 1 THEN 2 ELSE IF i = 2 THEN 1
                                  ELSE NoMate] })

\* a short list of breakends, or a mate pair and a third breakend, each
\* tagged with an event or not, and the option proximityThreshold
TagInit ==
    /\ \E n \in (0..MaxBreakends) \cup {3} :
          \E f \in [1..n -> Attrs], e \in [1..n -> {NoEvent, 1}],
             g \in TagMatings(n) :
              /\ n > MaxBreakends => g[1] # NoMate
              /\ breakends = [i \in 1..n |->
                    MkDerive(MkBreakend(i, f[i], g[i]), e[i], NoJcn,
                             NoUncertainty)]
    /\ \E thr \in {NotGiven, 0} :
          options = [cnSegments |-> << >>, backgroundPloidy |-> NotGiven,
                     proximityThreshold |-> thr]
    /\ pc = "start"
    /\ WalkIdle
    /\ GraphIdle
    /\ clusters = << >>
    /\ keptTiLinks = << >>
    /\ scores = << >>
    /\ partialChains = << >>
    /\ usedBreakends = {}
    /\ appliedLinks = << >>
    /\ result = [chains |-> << >>]
    /\ classes = << >>
    /\ ParseIdle

TagSpec == TagInit /\ [][DeriveNext]_vars

\* --------------------------------------------- buildChains, called alone
\* Four breakends for a call of buildChains, which reads the id, the
\* chromosome, the position and the junction copy number of a breakend: the
\* first three are on chromosome 1, the orientations alternate.
ChainBreakends ==
    { [i \in 1..4 |->
         MkDerive(MkBreakend(i, [chr |-> IF i = 4 THEN c ELSE 1, pos |-> p[i],
                                 orientation |-> IF i \in {1, 3} THEN RIGHT
                                                 ELSE LEFT],
                             NoMate),
                  NoEvent, NoJcn, NoUncertainty)] :
        p \in [1..4 -> 1..MaxPos], c \in Chrs }

MkLink(type, bs, i, j) ==
    [type |-> type, breakend1 |-> bs[i], breakend2 |-> bs[j]]

\* the lists of SV links: none, one, two apart, and two that share a breakend
SvChoices(bs) ==
    { << >>,
      << MkLink("SV", bs, 1, 2) >>,
      << MkLink("SV", bs, 1, 2), MkLink("SV", bs, 3, 4) >>,
      << MkLink("SV", bs, 1, 2), MkLink("SV", bs, 2, 3) >> }

\* the TI links of a list, among them a link in both orders, the link
\* between the ends of an SV link and a link from a breakend to itself
TiCandidates(bs) ==
    { MkLink("TI", bs, p[1], p[2]) :
        p \in { << 1, 3 >>, << 3, 1 >>, << 2, 3 >>, << 2, 4 >>, << 4, 1 >>,
                << 1, 2 >>, << 3, 3 >> } }

\* the lists of at most three TI links
TiChoices(bs) ==
    UNION { [1..n -> TiCandidates(bs)] : n \in 0..3 }

\* buildChains(breakends, svLinks, tiLinks)
ChainInit ==
    /\ \E bs \in ChainBreakends :
          /\ breakends = bs
          /\ svLinks \in SvChoices(bs)
          /\ keptTiLinks \in TiChoices(bs)
    /\ tiLinks = keptTiLinks
    /\ dbLinks = << >>
    /\ pc = "filtered"
    /\ WalkIdle
    /\ options = NoOptions
    /\ clusters = << >>
    /\ scores = << >>
    /\ partialChains = << >>
    /\ usedBreakends = {}
    /\ appliedLinks = << >>
    /\ result = [chains |-> << >>]
    /\ classes = << >>
    /\ ParseIdle

ChainNext ==
    \/ SeedChainsStep
    \/ ApplyPass
    \/ FinishChains

ChainSpec == ChainInit /\ [][ChainNext]_vars

\* the inputs of the termination check: buildChains called with at most two
\* TI links
ChainLiveInit ==
    /\ ChainInit
    /\ Len(keptTiLinks) <= 2

\* a pass of the loop of buildChains
LoopPass ==
    \/ ApplyPass
    \/ FinishChains

\* the loop of buildChains, once entered, goes on as long as it can
ChainLiveSpec == ChainLiveInit /\ [][ChainNext]_vars /\ WF_vars(LoopPass)

\* ------------------------------------------ filterLinksByCN, called alone
\* a TI link from a LEFT breakend on chromosome 1 to a RIGHT breakend
TiLinkChoices ==
    { [type |-> "TI",
       breakend1 |-> MkDerive(MkBreakend(1, [chr |-> 1, pos |-> p1,
                                             orientation |-> LEFT], NoMate),
                              NoEvent, NoJcn, NoUncertainty),
       breakend2 |-> MkDerive(MkBreakend(2, [chr |-> c2, pos |-> p2,
                                             orientation |-> RIGHT], NoMate),
                              NoEvent, NoJcn, NoUncertainty)] :
        p1 \in 1..MaxPos, p2 \in 1..MaxPos, c2 \in Chrs }

\* major and minor allele copy numbers, in quarters: no copy, 1 + 1 copies,
\* 2 + 1 copies
CnPairs == { << 0, 0 >>, << 4, 4 >>, << 8, 4 >> }

\* a CN segment [start, end) with start < end
CnSegmentChoices ==
    { s \in { [chr |-> c, start |-> a, end |-> b, majorAlleleCN |-> cn[1],
               minorAlleleCN |-> cn[2]] :
                 c \in Chrs, a \in 0..MaxPos, b \in 1..(MaxPos + 1),
                 cn \in CnPairs } :
        s.start < s.end }

\* none, one or two TI links; none, one or two CN segments, which may
\* overlap; the background ploidy left to its default or given as 3
FilterInit ==
    /\ \/ tiLinks = << >>
       \/ \E l \in TiLinkChoices : tiLinks = << l >>
       \/ \E l \in TiLinkChoices, m \in TiLinkChoices : tiLinks = << l, m >>
    /\ \E cn \in {<< >>} \cup { << s >> : s \in CnSegmentChoices }
                 \cup { << s, t >> : s \in CnSegmentChoices,
                                     t \in CnSegmentChoices },
          bp \in {NotGiven, 3} :
          options = [cnSegments |-> cn, backgroundPloidy |-> bp,
                     proximityThreshold |-> NotGiven]
    /\ breakends = << >>
    /\ pc = "graphed"
    /\ WalkIdle
    /\ svLinks = << >>
    /\ dbLinks = << >>
    /\ clusters = << >>
    /\ keptTiLinks = << >>
    /\ scores = << >>
    /\ partialChains = << >>
    /\ usedBreakends = {}
    /\ appliedLinks = << >>
    /\ result = [chains |-> << >>]
    /\ classes = << >>
    /\ ParseIdle

\* filterLinksByCN(links, breakends, cnSegments, backgroundPloidy)
FilterLinksByCN ==
    /\ pc = "graphed"
    /\ keptTiLinks' =
          filterLinksByCN(tiLinks, breakends, options.cnSegments,
                          OrDefault(options.backgroundPloidy, DEFAULT_PLOIDY))
    /\ pc' = "filtered"
    /\ UNCHANGED << breakends, walkVars, graphVars, options, clusters, scores,
                    partialChains, usedBreakends, appliedLinks, result,
                    classes, parseVars >>

FilterNext == FilterLinksByCN

FilterSpec == FilterInit /\ [][FilterNext]_vars

\* filterLinksByCN has returned
Filtered == pc = "filtered"

\* ------------------------------------- walkBreakends, ports claimed twice
\* A list of four breakends on one chromosome with unique ids, each naming
\* another breakend of the list as its mate (which need not name it back), so
\* that several breakends can map to one port with different mates.
SharedPortInput(bs) ==
    \E f \in [1..4 -> [pos : 1..MaxPos, orientation : Orientations]],
       g \in { h \in [1..4 -> 1..4] : \A i \in 1..4 : h[i] # i } :
        bs = [i \in 1..4 |->
                MkBreakend(i, [chr |-> 1, pos |-> f[i].pos,
                               orientation |-> f[i].orientation], g[i])]

SharedPortInit ==
    /\ SharedPortInput(breakends)
    /\ pc = "start"
    /\ WalkIdle
    /\ GraphIdle
    /\ DeriveIdle
    /\ ParseIdle

SharedPortSpec == SharedPortInit /\ [][Next]_vars

\* -------------------------------------------- classifyChains, called alone
\* an open end: no breakend, or a breakend
OpenEndChoices(id) ==
    {NoBreakendRef}
    \cup { MkDerive(MkBreakend(id, a, NoMate), NoEvent, NoJcn, NoUncertainty) :
             a \in Attrs }

\* the segments of a chain: what classifyChain reads is the chromosome and
\* the orientation
SegmentChoices ==
    { [chr |-> c, start |-> 1, end |-> 2, orientation |-> o] :
        c \in Chrs, o \in {"forward", "reverse"} }

\* any chain of at most MaxSegments segments
ClassifyInit ==
    /\ \E n \in 0..MaxSegments :
          \E segs \in [1..n -> SegmentChoices], closed \in BOOLEAN,
             s \in OpenEndChoices(1), e \in OpenEndChoices(2) :
              result = [chains |-> << [segments |-> segs, openStart |-> s,
                                       openEnd |-> e, isClosed |-> closed] >>]
    /\ breakends = << >>
    /\ pc = "derived"
    /\ WalkIdle
    /\ GraphIdle
    /\ options = NoOptions
    /\ clusters = << >>
    /\ keptTiLinks = << >>
    /\ scores = << >>
    /\ partialChains = << >>
    /\ usedBreakends = {}
    /\ appliedLinks = << >>
    /\ classes = << >>
    /\ ParseIdle

ClassifyNext == Classify

ClassifySpec == ClassifyInit /\ [][ClassifyNext]_vars

\* ------------------------------------------- parseVcfLines, line by line
\* the four ALT patterns of a breakend whose mate is at chr:pos
AltShapes == {"t[p[", "t]p]", "]p]t", "[p[t"}

MkAlt(shape, chr, pos) ==
    LET p == << ChrTokens[chr], ":", Digits[pos] >>
    IN  CASE shape = "t[p[" -> << "N", "[" >> \o p \o << "[" >>
          [] shape = "t]p]" -> << "N", "]" >> \o p \o << "]" >>
          [] shape = "]p]t" -> << "]" >> \o p \o << "]", "N" >>
          [] shape = "[p[t" -> << "[" >> \o p \o << "[", "N" >>

\* the pattern of the mate's record
ReciprocalShape(shape) ==
    CASE shape = "t[p[" -> "]p]t"
      [] shape = "]p]t" -> "t[p["
      [] shape = "t]p]" -> "t]p]"
      [] shape = "[p[t" -> "[p[t"

MkInfo(svtype, mateId) ==
    [SVTYPE |-> svtype, MATEID |-> mateId, EVENT |-> NoEvent, JCN |-> NoJcn,
     JCNUNCERT |-> NoUncertainty]

MkLine(chrom, pos, id, alt, info) ==
    [kind |-> "data", chrom |-> chrom, pos |-> pos, id |-> id, alt |-> alt,
     info |-> info]

\* ALT fields: the four patterns, and fields with a base on both sides, with
\* no base, with two different brackets, and without brackets
AltChoices ==
    { MkAlt(sh, c, 1) : sh \in AltShapes, c \in Chrs }
    \cup { << "N", "[", "chr1", ":", "1", "[", "N" >>,
           << "[", "chr1", ":", "1", "[" >>,
           << "N", "[", "chr1", ":", "1", "]" >>,
           << "N" >> }

\* the lines at place id of a list
LineChoices(id) ==
    { [kind |-> "header"], [kind |-> "blank"] }
    \cup { MkLine(1, 1, id, alt, MkInfo(t, NoMate)) :
             alt \in AltChoices, t \in {"BND", "DEL", NoInfo} }

\* the two records of a mate pair, each naming the other in its ALT field
\* and in MATEID
ReciprocalLines ==
    \E a1 \in [chr : Chrs, pos : 1..MaxPos], a2 \in [chr : Chrs, pos : 1..MaxPos],
       sh \in AltShapes :
        lines = << MkLine(a1.chr, a1.pos, 1, MkAlt(sh, a2.chr, a2.pos),
                          MkInfo("BND", 2)),
                   MkLine(a2.chr, a2.pos, 2,
                          MkAlt(ReciprocalShape(sh), a1.chr, a1.pos),
                          MkInfo("BND", 1)) >>

\* any list of at most MaxLines lines
ArbitraryLines ==
    \E n \in 0..MaxLines :
        \E ls \in [1..n -> UNION { LineChoices(i) : i \in 1..MaxLines }] :
            /\ \A i \in 1..n : ls[i] \in LineChoices(i)
            /\ lines = ls

ParseInit ==
    /\ ReciprocalLines \/ ArbitraryLines
    /\ lineNo = 0
    /\ breakends = << >>
    /\ pc = "parsing"
    /\ WalkIdle
    /\ GraphIdle
    /\ DeriveIdle

\* one turn of `for (const line of lines)`
ParseLine ==
    /\ pc = "parsing"
    /\ lineNo < Len(lines)
    /\ lineNo' = lineNo + 1
    /\ breakends' = ParseOneLine(breakends, lines[lineNo + 1])
    /\ UNCHANGED << pc, lines, walkVars, graphVars, deriveVars >>

\* `return breakends`
ParseReturn ==
    /\ pc = "parsing"
    /\ lineNo = Len(lines)
    /\ pc' = "parsed"
    /\ UNCHANGED << breakends, parseVars, walkVars, graphVars, deriveVars >>

ParseNext ==
    \/ ParseLine
    \/ ParseReturn

ParseSpec == ParseInit /\ [][ParseNext]_vars

\* parseVcfLines has returned
Parsed == pc = "parsed"

\* the line by line run returns what the function returns
ParseStepsAgree == Parsed => breakends = parseVcfLines(lines)

\* ------------------------------------------------------- shapes of inputs
\* the segment indices entered by the chains, in walk order
RECURSIVE EnteredIndices(_)
EnteredIndices(cs) ==
    IF cs = << >> THEN << >>
    ELSE [ i \in 1..Len(cs[1]) |-> cs[1][i].segmentIndex ]
         \o EnteredIndices(Tail(cs))

WSeg(chr, start, end, orientation, index) ==
    [chr |-> chr, start |-> start, end |-> end, orientation |-> orientation,
     segmentIndex |-> index]

RSeg(chr, start, end, index) ==
    [chr |-> chr, start |-> start, end |-> end, index |-> index]

Mates(x, y) == x.id # y.id /\ x.mateId = y.id /\ y.mateId = x.id

\* b's mateId names no breakend of the list
Unresolved(bs, b) == MateOf(bs, b) = NoBreakend

\* two breakends of the list map to the same port
SharedPort(bs) ==
    \E i, j \in DOMAIN bs :
        /\ i # j
        /\ bs[i].chr = bs[j].chr /\ bs[i].pos = bs[j].pos
        /\ bs[i].orientation = bs[j].orientation

\* a at p RIGHT and b at q > p LEFT on one chromosome, mates, and nothing else
IsDeletion(bs, a, b) ==
    /\ Len(bs) = 2 /\ {a, b} = DOMAIN bs
    /\ Mates(bs[a], bs[b])
    /\ bs[a].chr = bs[b].chr /\ bs[a].pos < bs[b].pos
    /\ bs[a].orientation = RIGHT /\ bs[b].orientation = LEFT

\* a at p LEFT and b at q > p RIGHT on one chromosome, mates, and nothing else
IsDuplication(bs, a, b) ==
    /\ Len(bs) = 2 /\ {a, b} = DOMAIN bs
    /\ Mates(bs[a], bs[b])
    /\ bs[a].chr = bs[b].chr /\ bs[a].pos < bs[b].pos
    /\ bs[a].orientation = LEFT /\ bs[b].orientation = RIGHT

\* a, c at p and b, d at q > p on one chromosome; a, b RIGHT and mates;
\* c, d LEFT and mates
IsInversion(bs, a, b, c, d) ==
    /\ Len(bs) = 4 /\ {a, b, c, d} = DOMAIN bs
    /\ Mates(bs[a], bs[b]) /\ Mates(bs[c], bs[d])
    /\ \A i \in DOMAIN bs : bs[i].chr = bs[a].chr
    /\ bs[a].pos < bs[b].pos
    /\ bs[c].pos = bs[a].pos /\ bs[d].pos = bs[b].pos
    /\ bs[a].orientation = RIGHT /\ bs[b].orientation = RIGHT
    /\ bs[c].orientation = LEFT /\ bs[d].orientation = LEFT

\* a at chr1:p RIGHT mated to b at chr2:q LEFT; c at chr1:p LEFT mated to
\* d at chr2:q RIGHT
IsTranslocation(bs, a, b, c, d) ==
    /\ Len(bs) = 4 /\ {a, b, c, d} = DOMAIN bs
    /\ Mates(bs[a], bs[b]) /\ Mates(bs[c], bs[d])
    /\ bs[a].chr = 1 /\ bs[c].chr = 1 /\ bs[b].chr = 2 /\ bs[d].chr = 2
    /\ bs[c].pos = bs[a].pos /\ bs[d].pos = bs[b].pos
    /\ bs[a].orientation = RIGHT /\ bs[b].orientation = LEFT
    /\ bs[c].orientation = LEFT /\ bs[d].orientation = RIGHT

\* ----------------------------------------------------------------- claims

\* C1: no reference-segment index is entered twice, neither by two chains
\* nor twice by one chain, whatever the input (shared ports, asymmetric
\* mates included), at every point of the walk.
C1_EachSegmentAtMostOnce ==
    LET e == EnteredIndices(chains)
    IN  \A i, j \in DOMAIN e : i # j => e[i] # e[j]

\* the port through which a walk segment is left
ExitPortOf(ws) == Port(IF ws.orientation = "forward" THEN "R" ELSE "L",
                       ws.segmentIndex)

\* C1 witness: a finished walk of an input with a shared port in which two
\* chains were emitted and one of them stopped in front of a segment that
\* had been entered before (its last exit port is connected).
C1_Witness ==
    /\ Returned
    /\ SharedPort(breakends)
    /\ Len(chains) >= 2
    /\ \E i \in DOMAIN chains :
          /\ Len(chains[i]) >= 2
          /\ MapHas(externalConnections, ExitPortOf(chains[i][Len(chains[i])]))

\* C2: at return, the indices entered by the chains followed by the orphan
\* indices list every index of refSegments exactly once.
C2_ChainsAndOrphansPartition ==
    Returned =>
        LET all == EnteredIndices(chains) \o orphanIndices
        IN  /\ Len(all) = Len(allSegments)
            /\ { all[i] : i \in DOMAIN all }
                 = { allSegments[i].index : i \in DOMAIN allSegments }

\* C2 witness: a finished walk with both a chain and an orphan.
C2_Witness ==
    /\ Returned
    /\ chains # << >>
    /\ orphanIndices # << >>
    /\ Len(allSegments) >= 3

\* every ordering of a list
Orderings(n) ==
    { f \in [1..n -> 1..n] : \A i, j \in 1..n : i # j => f[i] # f[j] }

Reorder(bs, f) == [ i \in 1..Len(bs) |-> bs[f[i]] ]

\* C3: the result of walkBreakends is the same for every ordering of the
\* input list (the ids being unique).
C3_OrderIndependent ==
    Returned =>
        \A f \in Orderings(Len(breakends)) :
            walkBreakends(Reorder(breakends, f)) =
                [refSegments |-> allSegments, chains |-> chains,
                 orphanIndices |-> orphanIndices]

\* C4 as stated: a deletion pair yields exactly one chain, A FORWARD then
\* C FORWARD, and orphanIndices = [B].
C4_DeletionOneChainOrphanB ==
    Returned =>
      \A a, b \in DOMAIN breakends :
        IsDeletion(breakends, a, b) =>
            LET chr == breakends[a].chr
                p == breakends[a].pos
                q == breakends[b].pos
            IN  /\ chains = << << WSeg(chr, 0, p, "forward", 0),
                                  WSeg(chr, q, q + PAD, "forward", 2) >> >>
                /\ orphanIndices = << 1 >>

\* C4 amended: a deletion pair yields two chains, A FORWARD then C FORWARD
\* and after it B FORWARD alone, and orphanIndices is empty.
C4_DeletionTwoChainsNoOrphan ==
    Returned =>
      \A a, b \in DOMAIN breakends :
        IsDeletion(breakends, a, b) =>
            LET chr == breakends[a].chr
                p == breakends[a].pos
                q == breakends[b].pos
            IN  /\ chains = << << WSeg(chr, 0, p, "forward", 0),
                                  WSeg(chr, q, q + PAD, "forward", 2) >>,
                               << WSeg(chr, p, q, "forward", 1) >> >>
                /\ orphanIndices = << >>

\* C4 witness: the walk of a deletion pair has returned, b first in the list.
C4_Witness ==
    /\ Returned
    /\ IsDeletion(breakends, 2, 1)
    /\ Len(chains) = 2

\* C5: a deletion pair yields three ref segments A=[0,p), B=[p,q),
\* C=[q,q+1000) and two chains; the first enters A then C, both forward, the
\* second enters B only.
C5_DeletionSegmentsAndChains ==
    Returned =>
      \A a, b \in DOMAIN breakends :
        IsDeletion(breakends, a, b) =>
            LET chr == breakends[a].chr
                p == breakends[a].pos
                q == breakends[b].pos
            IN  /\ allSegments = << RSeg(chr, 0, p, 0), RSeg(chr, p, q, 1),
                                    RSeg(chr, q, q + PAD, 2) >>
                /\ Len(chains) = 2
                /\ EnteredIndices(<< chains[1] >>) = << 0, 2 >>
                /\ \A k \in 1..2 : chains[1][k].orientation = "forward"
                /\ EnteredIndices(<< chains[2] >>) = << 1 >>

\* C5 witness: the walk of a deletion pair at p and p + 1 has returned with
\* the isolated segment B as its last chain.
C5_Witness ==
    /\ Returned
    /\ IsDeletion(breakends, 1, 2)
    /\ breakends[1].pos + 1 = breakends[2].pos
    /\ Len(allSegments) = 3
    /\ chains[Len(chains)][1].segmentIndex = 1

\* C6: the four-breakend inversion yields three ref segments and exactly one
\* chain, A FORWARD, B REVERSE, C FORWARD, and no orphan.
C6_InversionOneChain ==
    Returned =>
      \A a, b, c, d \in DOMAIN breakends :
        IsInversion(breakends, a, b, c, d) =>
            LET chr == breakends[a].chr
                p == breakends[a].pos
                q == breakends[b].pos
            IN  /\ Len(allSegments) = 3
                /\ chains = << << WSeg(chr, 0, p, "forward", 0),
                                  WSeg(chr, p, q, "reverse", 1),
                                  WSeg(chr, q, q + PAD, "forward", 2) >> >>
                /\ orphanIndices = << >>

\* C6 witness: the walk of an inversion has returned with a reversed segment.
C6_Witness ==
    /\ Returned
    /\ \E a, b, c, d \in DOMAIN breakends : IsInversion(breakends, a, b, c, d)
    /\ \E i \in DOMAIN chains, k \in 1..3 :
          Len(chains[i]) = 3 /\ chains[i][k].orientation = "reverse"

\* C7: the balanced translocation yields exactly two chains, in this order:
\* A FORWARD then D FORWARD, and C FORWARD then B FORWARD (A, B on chr1 and
\* C, D on chr2).
C7_TranslocationTwoChains ==
    Returned =>
      \A a, b, c, d \in DOMAIN breakends :
        IsTranslocation(breakends, a, b, c, d) =>
            LET p == breakends[a].pos
                q == breakends[b].pos
            IN  chains = << << WSeg(1, 0, p, "forward", 0),
                               WSeg(2, q, q + PAD, "forward", 3) >>,
                            << WSeg(2, 0, q, "forward", 2),
                               WSeg(1, p, p + PAD, "forward", 1) >> >>

\* C7 witness: the walk of a translocation whose list starts with a chr2
\* breakend has returned, p and q being different.
C7_Witness ==
    /\ Returned
    /\ \E a, b, c, d \in DOMAIN breakends :
          /\ IsTranslocation(breakends, a, b, c, d)
          /\ breakends[a].pos # breakends[b].pos
    /\ breakends[1].chr = 2
    /\ Len(chains) = 2

\* C8 as stated: for a tandem duplication the chains contain B as a chain of
\* length 1 (the closed loop) and A and C as chains of their own.  WalkResult
\* has no closed flag; the formula asks only that the three chains exist.
C8_DuplicationLoopIsAChain ==
    Returned =>
      \A a, b \in DOMAIN breakends :
        IsDuplication(breakends, a, b) =>
            /\ \E i \in DOMAIN chains : EnteredIndices(<< chains[i] >>) = << 1 >>
            /\ \E i \in DOMAIN chains : EnteredIndices(<< chains[i] >>) = << 0 >>
            /\ \E i \in DOMAIN chains : EnteredIndices(<< chains[i] >>) = << 2 >>

\* the whole input is one breakend whose mate does not resolve
IsSingleUnresolved(bs) == Len(bs) = 1 /\ Unresolved(bs, bs[1])

\* C9 as stated: a single breakend with an unresolved mate yields either no
\* chain or exactly one chain covering the left stub and the right stub.
C9_SingleOneChainOrNone ==
    (Returned /\ IsSingleUnresolved(breakends)) =>
        \/ Len(chains) = 0
        \/ /\ Len(chains) = 1
           /\ { chains[1][k].segmentIndex : k \in DOMAIN chains[1] } = {0, 1}

\* C9 amended: a single breakend at p with an unresolved mate yields two
\* chains of one FORWARD segment each, the left stub [0,p) and then the
\* right stub [p,p+1000), and no orphan.
C9_SingleTwoStubChains ==
    (Returned /\ IsSingleUnresolved(breakends)) =>
        LET chr == breakends[1].chr
            p == breakends[1].pos
        IN  /\ chains = << << WSeg(chr, 0, p, "forward", 0) >>,
                           << WSeg(chr, p, p + PAD, "forward", 1) >> >>
            /\ orphanIndices = << >>

\* C9 witness: the walk of a single breakend whose mateId names an id that
\* is not in the list has returned.
C9_Witness ==
    /\ Returned
    /\ IsSingleUnresolved(breakends)
    /\ breakends[1].mateId # NoMate
    /\ Len(chains) = 2

\* b is an endpoint of the link
EndpointOf(link, b) == link.breakend1 = b \/ link.breakend2 = b

\* C10 as stated: a breakend whose mateId resolves to no breakend is an
\* endpoint of no SV edge, and its port has no external connection.
C10_UnresolvedNoEdgeFreePort ==
    \A i \in DOMAIN breakends :
        Unresolved(breakends, breakends[i]) =>
            /\ GraphBuilt =>
                  \A k \in DOMAIN svLinks : ~EndpointOf(svLinks[k], breakends[i])
            /\ Wired =>
                  ~MapHas(externalConnections,
                          getBreakendPort(breakends[i], allSegments))

\* no breakend of the list names b as its mate
NamedByNone(bs, b) == \A j \in DOMAIN bs : bs[j].mateId # b.id

\* no breakend with a resolving mate maps to the port, and no resolving mate
\* does
PortOfNoJunction(bs, segs, port) ==
    \A j \in DOMAIN bs :
        ~Unresolved(bs, bs[j]) =>
            /\ getBreakendPort(bs[j], segs) # port
            /\ getBreakendPort(MateOf(bs, bs[j]), segs) # port

\* C10 amended: a breakend whose mateId resolves to no breakend is the first
\* endpoint of no SV edge, and an endpoint of none when no breakend names it
\* as its mate; its port has no external connection when no breakend with a
\* resolving mate maps to that port and no resolving mate does.
C10_UnresolvedAddsNoEdgeNoConnection ==
    \A i \in DOMAIN breakends :
        Unresolved(breakends, breakends[i]) =>
            /\ GraphBuilt =>
                  /\ \A k \in DOMAIN svLinks : svLinks[k].breakend1 # breakends[i]
                  /\ NamedByNone(breakends, breakends[i]) =>
                        \A k \in DOMAIN svLinks :
                            ~EndpointOf(svLinks[k], breakends[i])
            /\ (/\ Wired
                /\ PortOfNoJunction(breakends, allSegments,
                        getBreakendPort(breakends[i], allSegments))) =>
                  ~MapHas(externalConnections,
                          getBreakendPort(breakends[i], allSegments))

\* C10 witness: walk and graph are both done for a list with a junction (an
\* SV edge, connected ports) and a breakend with an unresolved mate that no
\* breakend names and whose port no junction uses; a chain ends at that port.
C10_Witness ==
    /\ pc = "both"
    /\ svLinks # << >>
    /\ \E i \in DOMAIN breakends :
          /\ Unresolved(breakends, breakends[i])
          /\ breakends[i].mateId # NoMate
          /\ NamedByNone(breakends, breakends[i])
          /\ PortOfNoJunction(breakends, allSegments,
                getBreakendPort(breakends[i], allSegments))
          /\ \E c \in DOMAIN chains :
                /\ Len(chains[c]) >= 2
                /\ ExitPortOf(chains[c][Len(chains[c])])
                     = getBreakendPort(breakends[i], allSegments)

\* the two endpoints of a link
Ends(link) == { link.breakend1, link.breakend2 }

\* C11: once buildGraph has returned, every breakend b whose mateId resolves
\* to a breakend m is joined to m by exactly one edge of svLinks, and no two
\* edges of svLinks have the same endpoints.
C11_OneSvEdgePerMatePair ==
    GraphBuilt =>
        /\ \A i \in DOMAIN breakends :
              LET b == breakends[i]
                  m == MateOf(breakends, b)
              IN  m # NoBreakend =>
                    Cardinality({ k \in DOMAIN svLinks :
                                    Ends(svLinks[k]) = {b, m} }) = 1
        /\ \A k, l \in DOMAIN svLinks :
              k # l => Ends(svLinks[k]) # Ends(svLinks[l])

\* a and b are on one chromosome, a not after b, a faces LEFT and b faces
\* RIGHT, and neither names the other as its mate
FacingInward(a, b) ==
    /\ a.id # b.id
    /\ a.chr = b.chr /\ a.pos <= b.pos
    /\ a.orientation = LEFT /\ b.orientation = RIGHT
    /\ a.mateId # b.id /\ b.mateId # a.id

\* C12: once buildGraph has returned, tiLinks has exactly one edge for every
\* pair of breakends facing inward, whatever the order of the list, and no
\* other edge.
C12_TiEdgePerFacingPair ==
    GraphBuilt =>
        /\ \A i, j \in DOMAIN breakends :
              FacingInward(breakends[i], breakends[j]) =>
                 Cardinality({ k \in DOMAIN tiLinks :
                     Ends(tiLinks[k]) = {breakends[i], breakends[j]} }) = 1
        /\ \A k \in DOMAIN tiLinks :
              \/ FacingInward(tiLinks[k].breakend1, tiLinks[k].breakend2)
              \/ FacingInward(tiLinks[k].breakend2, tiLinks[k].breakend1)

\* classifyChains has returned
Classified == pc = "classified"

\* C13: for the balanced translocation of four breakends, deriveChromosomes
\* returns at least one chain and classifyChain gives its first chain TRA.
C13_TranslocationIsTRA ==
    Classified =>
      \A a, b, c, d \in DOMAIN breakends :
        IsTranslocation(breakends, a, b, c, d) =>
            Len(classes) >= 1 /\ classes[1] = "TRA"

\* C14: for the four-breakend inversion, deriveChromosomes returns at least
\* one chain and classifyChain gives its first chain INV.
C14_InversionIsINV ==
    Classified =>
      \A a, b, c, d \in DOMAIN breakends :
        IsInversion(breakends, a, b, c, d) =>
            Len(classes) >= 1 /\ classes[1] = "INV"

\* the length of the part of the CN segment s inside the interval between
\* the two positions of the link, 0 when they do not overlap
Inside(s, link) ==
    LET lo == Min(link.breakend1.pos, link.breakend2.pos)
        hi == Max(link.breakend1.pos, link.breakend2.pos)
        len == Min(s.end, hi) - Max(s.start, lo)
    IN  IF len > 0 THEN len ELSE 0

\* the places of the CN segments of the link's chromosome that overlap the
\* interval between its two positions
OverlapsOf(link, cn) ==
    { k \in DOMAIN cn : cn[k].chr = link.breakend1.chr /\ Inside(cn[k], link) > 0 }

\* the sum of the overlap lengths over the places S, each multiplied by the
\* segment's copy number when weighted
RECURSIVE SumInside(_, _, _, _)
SumInside(S, cn, link, weighted) ==
    IF S = {} THEN 0
    ELSE LET k == CHOOSE x \in S : TRUE
             w == IF weighted
                  THEN cn[k].majorAlleleCN + cn[k].minorAlleleCN ELSE 1
         IN  w * Inside(cn[k], link) + SumInside(S \ {k}, cn, link, weighted)

\* the mean of major + minor over the overlapping CN segments, weighted by
\* the overlap lengths, minus the ploidy, is at least 0.15: with copy numbers
\* in quarters, 20 * sum(cn * len) >= (20 * ploidy + 3) * 4 * sum(len)
MeanAtLeastThreshold(link, cn, ploidy) ==
    LET S == OverlapsOf(link, cn)
    IN  20 * SumInside(S, cn, link, TRUE)
            >= (20 * ploidy + 3) * 4 * SumInside(S, cn, link, FALSE)

\* the condition under which C15 says a link is kept
ShouldKeep(link, cn, ploidy) ==
    \/ link.breakend1.chr # link.breakend2.chr
    \/ OverlapsOf(link, cn) = {}
    \/ MeanAtLeastThreshold(link, cn, ploidy)

\* the background ploidy of the call
PloidyOfCall == OrDefault(options.backgroundPloidy, DEFAULT_PLOIDY)

TwoOpenEnds(c) == c.openStart # NoBreakendRef /\ c.openEnd # NoBreakendRef

\* the pairs (lower, upper) of the two open ends: the end at the smaller
\* position is the lower one; at equal positions either end may be
LowerUpper(c) ==
    { p \in { << c.openStart, c.openEnd >>, << c.openEnd, c.openStart >> } :
        p[1].pos <= p[2].pos }

\* the labels that the table of C17 allows for a chain
TableLabels(c) ==
    LET n == Len(c.segments)
        chrs == { c.segments[k].chr : k \in DOMAIN c.segments }
        reversed == \E k \in DOMAIN c.segments :
                        c.segments[k].orientation = "reverse"
    IN  IF c.isClosed THEN {"COMPLEX"}
        ELSE IF n <= 1 /\ TwoOpenEnds(c)
        THEN IF c.openStart.chr # c.openEnd.chr THEN {"TRA"}
             ELSE { IF p[1].orientation = RIGHT /\ p[2].orientation = LEFT
                    THEN "DEL"
                    ELSE IF p[1].orientation = LEFT /\ p[2].orientation = RIGHT
                    THEN "DUP"
                    ELSE "INV" : p \in LowerUpper(c) }
        ELSE IF n = 2 /\ Cardinality(chrs) > 1 THEN {"TRA"}
        ELSE IF n > 2 THEN {"COMPLEX"}
        ELSE IF n = 2 /\ reversed THEN {"INV"}
        ELSE {"UNKNOWN"}

\* C17: classifyChain gives every chain the label of the first matching row
\* of the table: COMPLEX if closed; TRA, DEL, DUP or INV by the two open ends
\* when there is at most one segment; TRA, COMPLEX or INV by the segments
\* when there are two or more; UNKNOWN otherwise.
C17_LabelByTable ==
    Classified =>
        \A k \in DOMAIN result.chains :
            classes[k] \in TableLabels(result.chains[k])

\* C17 witness: an open chain of three segments with two open ends that face
\* each other like a deletion was labelled COMPLEX.
C17_Witness ==
    /\ Classified
    /\ Len(result.chains) = 1
    /\ LET c == result.chains[1]
       IN  /\ ~c.isClosed /\ TwoOpenEnds(c)
           /\ Len(c.segments) = 3
           /\ c.openStart.chr = c.openEnd.chr
           /\ c.openStart.pos < c.openEnd.pos
           /\ c.openStart.orientation = RIGHT /\ c.openEnd.orientation = LEFT
    /\ classes = << "COMPLEX" >>

\* the list with the event tags e in place of its own
Retagged(bs, e) == [i \in DOMAIN bs |-> [bs[i] EXCEPT !.event = e[i]]]

\* the event tags that a call may differ in
EventTaggings(bs) == [DOMAIN bs -> {NoEvent, 1, 2}]

\* the values of proximityThreshold that a call may differ in
Thresholds == {NotGiven, 0, 1}

\* a breakend of a chain without its event tag
Untagged(b) == IF b = NoBreakendRef THEN b ELSE [b EXCEPT !.event = NoEvent]

\* the chains without the event tags of the breakends at their open ends
UntaggedChains(r) ==
    [k \in DOMAIN r.chains |->
        [r.chains[k] EXCEPT !.openStart = Untagged(@),
                            !.openEnd = Untagged(@)]]

\* C18 as stated: calls whose breakends differ only in their event tags, or
\* whose options differ only in proximityThreshold, return identical chains.
C18_ChainsIdentical ==
    pc = "derived" =>
        /\ \A e \in EventTaggings(breakends) :
              deriveChromosomes(Retagged(breakends, e), options)
                  = deriveChromosomes(breakends, options)
        /\ \A thr \in Thresholds :
              deriveChromosomes(breakends,
                                [options EXCEPT !.proximityThreshold = thr])
                  = deriveChromosomes(breakends, options)

\* C18 amended: calls whose options differ only in proximityThreshold return
\* identical chains, and calls whose breakends differ only in their event
\* tags return chains that are identical except for the event tag of the
\* breakend records at the open ends.
C18_ChainsIdenticalUpToEventTags ==
    pc = "derived" =>
        /\ \A e \in EventTaggings(breakends) :
              UntaggedChains(deriveChromosomes(Retagged(breakends, e), options))
                  = UntaggedChains(deriveChromosomes(breakends, options))
        /\ \A thr \in Thresholds :
              deriveChromosomes(breakends,
                                [options EXCEPT !.proximityThreshold = thr])
                  = deriveChromosomes(breakends, options)

\* C18 witness: a call with proximityThreshold 0 found more than one
\* cluster and returned a chain that joins a breakend with an event tag and
\* a breakend without.
C18_Witness ==
    /\ pc = "derived"
    /\ options.proximityThreshold = 0
    /\ Len(clusters) > 1
    /\ \E k \in DOMAIN result.chains :
          LET c == result.chains[k]
          IN  /\ TwoOpenEnds(c)
              /\ c.openStart.event # NoEvent
              /\ c.openEnd.event = NoEvent

\* the data line with the given ID column
LineOf(id) ==
    lines[CHOOSE i \in DOMAIN lines : lines[i].kind = "data" /\ lines[i].id = id]

\* the ALT field of line l has the given pattern and names the position of
\* line m
AltNames(l, shape, m) == l.alt = MkAlt(shape, m.chrom, m.pos)

\* the ALT fields of two lines are a reciprocal pair of the four patterns
ReciprocalAlts(l, m) ==
    \E sh \in AltShapes :
        AltNames(l, sh, m) /\ AltNames(m, ReciprocalShape(sh), l)

\* the pairs of parsed breakends that are each other's mates
MatePairs ==
    { p \in (DOMAIN breakends) \X (DOMAIN breakends) :
        /\ p[1] # p[2]
        /\ breakends[p[1]].mateId = breakends[p[2]].id
        /\ breakends[p[2]].mateId = breakends[p[1]].id
        /\ ReciprocalAlts(LineOf(breakends[p[1]].id),
                          LineOf(breakends[p[2]].id)) }

\* C19 as stated: for two parsed breakends that are each other's mates, the
\* mateChr, matePos and mateOrientation of each equal the chr, pos and
\* orientation of the other.
C19_MateFieldsEqualMate ==
    Parsed =>
        \A p \in MatePairs :
            LET b == breakends[p[1]]
                mate == breakends[p[2]]
            IN  /\ b.mateChr = mate.chr
                /\ b.matePos = mate.pos
                /\ b.mateOrientation = mate.orientation

\* C19 amended: for two parsed breakends that are each other's mates, the
\* mateChr and matePos of each equal the chr and pos of the other, and its
\* mateOrientation is the opposite of the orientation of the other.
C19_MateOrientationOpposite ==
    Parsed =>
        \A p \in MatePairs :
            LET b == breakends[p[1]]
                mate == breakends[p[2]]
            IN  /\ b.mateChr = mate.chr
                /\ b.matePos = mate.pos
                /\ b.mateOrientation = -mate.orientation

\* C19 witness: the records N[chr2:q[ on chr1 and ]chr1:p]N on chr2 were
\* parsed into two breakends that are each other's mates.
C19_Witness ==
    /\ Parsed
    /\ << 1, 2 >> \in MatePairs
    /\ breakends[1].chr = 1 /\ breakends[2].chr = 2
    /\ AltNames(lines[1], "t[p[", lines[2])
    /\ breakends[1].orientation = 1 /\ breakends[2].orientation = -1

\* buildChains has scored the links
Scored == pc \in {"chaining", "derived", "classified"}

\* the number of links of keptTiLinks that end at the breakend
LinksAt(b) ==
    Cardinality({ k \in DOMAIN keptTiLinks :
                    b.id \in {keptTiLinks[k].breakend1.id,
                              keptTiLinks[k].breakend2.id} })

\* neither endpoint has the link as its only link
NotOnly(link) == LinksAt(link.breakend1) # 1 /\ LinksAt(link.breakend2) # 1

\* the endpoints are next to each other, on one chromosome, in the list of
\* all breakends sorted by (chr, pos)
Consecutive(link) ==
    LET sorted == SortByChrPosFrom(breakends, 1, << >>)
    IN  \E i \in 1..(Len(sorted) - 1) :
            /\ sorted[i].chr = sorted[i + 1].chr
            /\ {sorted[i].id, sorted[i + 1].id}
                   = {link.breakend1.id, link.breakend2.id}

\* C20: a TI edge that is not ONLY and whose endpoints are consecutive in
\* the list of all breakends sorted by (chr, pos) gets class ADJACENT with
\* score 3, whether or not the JCNs of its endpoints match.
C20_AdjacentBeforeJcnMatch ==
    Scored =>
        \A k \in DOMAIN keptTiLinks :
            NotOnly(keptTiLinks[k]) /\ Consecutive(keptTiLinks[k])
                => scores[k] = [priority |-> "ADJACENT", score |-> Score(3, 1)]

\* the link is a candidate TI edge with an endpoint in exactly one candidate
IsOnly(link) == LinksAt(link.breakend1) = 1 \/ LinksAt(link.breakend2) = 1

\* C21: a TI edge with an endpoint that is in exactly one TI edge is classed
\* ONLY with score 4, and buildChains applies it before any edge of class
\* ADJACENT, JCN_MATCH or NEAREST.
C21_OnlyAppliedFirst ==
    Scored =>
        /\ \A k \in DOMAIN keptTiLinks :
              IsOnly(keptTiLinks[k])
                  => scores[k] = [priority |-> "ONLY", score |-> Score(4, 1)]
        /\ \A i \in DOMAIN appliedLinks, j \in DOMAIN appliedLinks :
              /\ i < j
              /\ IsOnly(keptTiLinks[appliedLinks[j].link])
              => IsOnly(keptTiLinks[appliedLinks[i].link])

\* the other endpoint of a link of the breakend
PartnerIn(link, id) ==
    IF link.breakend1.id = id THEN link.breakend2.id ELSE link.breakend1.id

\* the links of the breakend whose other endpoint is still unused
OpenLinksAt(id) ==
    { k \in DOMAIN keptTiLinks :
        /\ id \in {keptTiLinks[k].breakend1.id, keptTiLinks[k].breakend2.id}
        /\ PartnerIn(keptTiLinks[k], id) \notin usedBreakends }

\* C22: once a TI link has been applied, an unused breakend that is left with
\* exactly one link to an unused partner has that link classed ONLY with
\* score 4 in the selection rounds that follow.
C22_OnlyCascades ==
    pc = "chaining" /\ appliedLinks # << >> =>
        \A i \in DOMAIN breakends :
            LET id == breakends[i].id
            IN  id \notin usedBreakends /\ Cardinality(OpenLinksAt(id)) = 1
                => \A k \in OpenLinksAt(id) :
                      scores[k] = [priority |-> "ONLY", score |-> Score(4, 1)]

\* a sequence read backwards
Reversed(seq) == [ k \in 1..Len(seq) |-> seq[Len(seq) + 1 - k] ]

\* the segments of a chain after a new segment was added at the matched end
AddedAt(end, segments, seg) ==
    IF end = "end" THEN Append(segments, seg) ELSE << seg >> \o segments

\* the segments of two chains joined at their matched ends by a new segment
JoinedAt(end1, segments1, seg, end2, segments2) ==
    (IF end1 = "end" THEN segments1 ELSE Reversed(segments1))
    \o << seg >>
    \o (IF end2 = "start" THEN segments2 ELSE Reversed(segments2))

\* C23: when a TI edge matches the open end of exactly one chain, the new
\* segment is added at the tail of the chain's segments if the matched end
\* is the chain's end and at the head if it is the chain's start; on a merge
\* the new segment lies between the two matched ends.
C23_SegmentAtMatchedEnd ==
    [][ApplyPass =>
        LET link == keptTiLinks[NextLink]
            c1 == FindChain(partialChains, link.breakend1.id)
            c2 == FindChain(partialChains, link.breakend2.id)
            seg == makeSegment(link.breakend1, link.breakend2)
            how == appliedLinks'[Len(appliedLinks')].how
        IN  /\ how = "extend1" =>
                  partialChains'[c1.idx].segments
                      = AddedAt(c1.end, partialChains[c1.idx].segments, seg)
            /\ how = "extend2" =>
                  partialChains'[c2.idx].segments
                      = AddedAt(c2.end, partialChains[c2.idx].segments, seg)
            /\ how = "merge" =>
                  \E k \in DOMAIN partialChains' :
                      partialChains'[k].segments
                          = JoinedAt(c1.end, partialChains[c1.idx].segments, seg,
                                     c2.end, partialChains[c2.idx].segments)
    ]_vars

\* the orientations that C24 allows for the segment between two endpoints
\* of one chromosome: REVERSE when the endpoint at the lower position faces
\* RIGHT and the one at the upper position faces LEFT, FORWARD otherwise;
\* at equal positions either endpoint may be the lower one
SplicedOrientations(b1, b2) ==
    { IF p[1].orientation = RIGHT /\ p[2].orientation = LEFT
      THEN "reverse" ELSE "forward" :
        p \in { q \in { << b1, b2 >>, << b2, b1 >> } : q[1].pos <= q[2].pos } }

\* C24: the ref segment that buildChains splices in between two endpoints of
\* one chromosome is REVERSE when the lower endpoint faces RIGHT and the
\* upper endpoint faces LEFT, and FORWARD otherwise.
C24_ReverseWhenDbShaped ==
    [][ApplyPass =>
        LET link == keptTiLinks[NextLink]
            b1 == link.breakend1
            b2 == link.breakend2
        IN  b1.chr = b2.chr =>
                \E k \in DOMAIN partialChains' :
                    \E n \in DOMAIN partialChains'[k].segments :
                        LET seg == partialChains'[k].segments[n]
                        IN  /\ seg.chr = b1.chr
                            /\ seg.start = Min(b1.pos, b2.pos)
                            /\ seg.end = Max(b1.pos, b2.pos)
                            /\ seg.orientation \in SplicedOrientations(b1, b2)
    ]_vars

\* the number of times that the link at place k was applied
TimesApplied(k) ==
    Cardinality({ n \in DOMAIN appliedLinks : appliedLinks[n].link = k })

\* C25: buildChains terminates on every input of breakends, SV links and TI
\* links: no TI link is applied more than twice, so after at most twice as
\* many passes as there are TI links a pass applies no link and the loop
\* exits.
C25_BuildChainsTerminates ==
    /\ [](\A k \in DOMAIN keptTiLinks : TimesApplied(k) <= 2)
    /\ pc = "chaining" ~> pc = "derived"

\* C25 witness: buildChains has returned after a pass applied a TI link for
\* the second time, and another TI link was never applied.
C25_Witness ==
    /\ pc = "derived"
    /\ \E k \in DOMAIN keptTiLinks : TimesApplied(k) = 2
    /\ \E k \in DOMAIN keptTiLinks : TimesApplied(k) = 0

\* well-formed input of buildChains: no breakend is an endpoint of two SV
\* links or of one SV link twice, and the endpoints of every TI link differ
\* (the ids are the places in the list, so they are unique, and no breakend
\* of ChainBreakends has a mate)
WellFormed ==
    /\ \A i \in DOMAIN svLinks : svLinks[i].breakend1.id # svLinks[i].breakend2.id
    /\ \A i, j \in DOMAIN svLinks :
          i # j => {svLinks[i].breakend1.id, svLinks[i].breakend2.id}
                   \cap {svLinks[j].breakend1.id, svLinks[j].breakend2.id} = {}
    /\ \A k \in DOMAIN keptTiLinks :
          keptTiLinks[k].breakend1.id # keptTiLinks[k].breakend2.id

\* the ids at the open ends of a partial chain
OpenEnds(c) == {c.startBreakend.id, c.endBreakend.id}

\* the endpoints of the link are the two open ends of one partial chain
WithinChain(link) ==
    \E i \in DOMAIN partialChains :
        OpenEnds(partialChains[i]) = {link.breakend1.id, link.breakend2.id}

\* C28: for well-formed input buildChains returns no chain with isClosed =
\* true: at every step each breakend id is at the open end of at most one
\* partial chain and the two open ends of a partial chain differ, and no pass
\* applies a TI link whose endpoints are the two open ends of one chain.
C28_NeverClosed ==
    /\ [](WellFormed =>
            /\ \A k \in DOMAIN result.chains : ~result.chains[k].isClosed
            /\ \A i \in DOMAIN partialChains :
                  partialChains[i].startBreakend.id # partialChains[i].endBreakend.id
            /\ \A i, j \in DOMAIN partialChains :
                  i # j => OpenEnds(partialChains[i])
                           \cap OpenEnds(partialChains[j]) = {})
    /\ [][WellFormed /\ ApplyPass =>
            ~WithinChain(keptTiLinks[appliedLinks'[Len(appliedLinks')].link])]_vars

\* C28 witness: buildChains has returned for well-formed input after applying
\* a link, and the endpoints of a link it never applied are the two open
\* ends of a chain it returns.
C28_Witness ==
    /\ WellFormed
    /\ pc = "derived"
    /\ appliedLinks # << >>
    /\ \E k \in DOMAIN keptTiLinks :
          /\ TimesApplied(k) = 0
          /\ \E c \in DOMAIN result.chains :
                {result.chains[c].openStart.id, result.chains[c].openEnd.id}
                = {keptTiLinks[k].breakend1.id, keptTiLinks[k].breakend2.id}

\* the number of links applied by the merge branch
Merges ==
    Cardinality({ n \in DOMAIN appliedLinks : appliedLinks[n].how = "merge" })

ReadBackwards(chain) ==
    [chain EXCEPT !.segments = Reversed(chain.segments),
                  !.openStart = chain.openEnd,
                  !.openEnd = chain.openStart]

\* C29: classifyChain gives a chain read in the other direction (open ends
\* swapped, segments in reverse order) the label it gives the chain, also
\* when the two open ends are at the same position.
C29_DirectionIndependent ==
    pc = "classified" =>
        \A k \in DOMAIN result.chains :
            classifyChain(ReadBackwards(result.chains[k])) = classes[k]

\* the other port of the segment of a port
OtherPort(port) == Port(IF port.side = "L" THEN "R" ELSE "L", port.index)

\* leaving a segment by exitPort and following external connections and
\* crossing segments for at most n segments comes to the segment idx
RECURSIVE ComesBack(_, _, _)
ComesBack(exitPort, idx, n) ==
    LET nextPort == MapGet(externalConnections, exitPort)
    IN  /\ n > 0
        /\ nextPort # NoPort
        /\ \/ nextPort.index = idx
           \/ ComesBack(OtherPort(nextPort), idx, n - 1)

\* the segment idx lies on a cycle of the port graph
OnCycle(idx) ==
    \/ ComesBack(Port("R", idx), idx, Len(allSegments))
    \/ ComesBack(Port("L", idx), idx, Len(allSegments))

\* C26: after walkBreakends has walked from every free port, every segment
\* of orphanIndices lies on a cycle of the port graph: following external
\* connections and crossing segments from it comes back to it.
C26_OrphansOnCycles ==
    Returned => \A k \in DOMAIN orphanIndices : OnCycle(orphanIndices[k])

\* C27: once walkBreakends has wired the boundaries, the external
\* connections are symmetric: a port X is connected to Y exactly when Y is
\* connected to X, also when several breakends map to one port.
C27_ConnectionsSymmetric ==
    Wired => \A X \in DOMAIN externalConnections :
                 MapGet(externalConnections, externalConnections[X]) = X

====
